---- MODULE Spec2Model ----
(***************************************************************************)
(* Model of the PR review coordination core: BaseAgent.analyze and         *)
(* parse_response (backend/agents/base_agent.py), OllamaClient             *)
(* (backend/models/ollama_client.py), the LangGraph orchestrator           *)
(* (backend/agents/orchestrator.py), the WebSocket session                 *)
(* (backend/api/websocket.py) and the HTTP analysis service                *)
(* (backend/services/analysis_service.py).                                 *)
(*                                                                         *)
(* Strings the code inspects (severity labels) are sequences of            *)
(* one-character strings, so lower() and strip() are computed.  JSON       *)
(* values are tagged records [t, v].  Optional values are sequences of     *)
(* length at most one (<<>> is None).  Time is counted in ticks of a third *)
(* of a hundredth of a second, so round(x, 2) is a real rounding.          *)
(***************************************************************************)
EXTENDS Integers, Sequences, FiniteSets, TLC

\* Largest clock reading (in ticks) at which a gateway call still answers.
MaxTicks == 2
\* Largest number of ticks that pass between two clock readings of the HTTP
\* service that surround the worker's own two readings.
MaxOverhead == 1

\* Largest number of elements of the findings list a single call of
\* parse_response is given.
MaxItems == 3

\* Largest reading of the clock that stamps a stored report.
MaxClock == 1

\* Largest number of reports stored by earlier requests.
MaxStored == 2

\* Number of WebSocket sessions the connection manager is run with.
MaxSessions == 2

\* Largest number of send_event calls for one session.
MaxSends == 2

\* Number of calls of run, or of analyze_diff, made on one object.
MaxRuns == 2

None == <<>>
Some(x) == <<x>>

-----------------------------------------------------------------------------
(* Character strings *)

LowerChar(c) ==
    CASE c = "A" -> "a" [] c = "C" -> "c" [] c = "D" -> "d" [] c = "E" -> "e"
      [] c = "G" -> "g" [] c = "H" -> "h" [] c = "I" -> "i" [] c = "L" -> "l"
      [] c = "M" -> "m" [] c = "N" -> "n" [] c = "O" -> "o" [] c = "R" -> "r"
      [] c = "T" -> "t" [] c = "U" -> "u" [] c = "W" -> "w" [] OTHER -> c

\* str.lower()
Lower(s) == [i \in 1..Len(s) |-> LowerChar(s[i])]

IsSpace(c) == c \in {" ", "\t", "\n"}

RECURSIVE LStrip(_)
LStrip(s) == IF s # <<>> /\ IsSpace(Head(s)) THEN LStrip(Tail(s)) ELSE s

RECURSIVE RStrip(_)
RStrip(s) ==
    IF s # <<>> /\ IsSpace(s[Len(s)]) THEN RStrip(SubSeq(s, 1, Len(s) - 1)) ELSE s

\* str.strip()
Strip(s) == RStrip(LStrip(s))

-----------------------------------------------------------------------------
(* JSON values, as json.loads produces them *)

JStr(s) == [t |-> "str", v |-> s]
JNum(n) == [t |-> "num", v |-> n]
JList(xs) == [t |-> "list", v |-> xs]
JDict(d) == [t |-> "dict", v |-> d]
JNull == [t |-> "null", v |-> 0]

\* dict.get(key, default)
Get(d, key, default) == IF key \in DOMAIN d THEN d[key] ELSE default

-----------------------------------------------------------------------------
(* schemas.py *)

\* class Severity
Severity == {"low", "medium", "high", "critical"}

\* Severity(value): the member whose value is the string, or ValueError.
SeverityByValue(s) ==
    CASE s = <<"l", "o", "w">> -> Some("low")
      [] s = <<"m", "e", "d", "i", "u", "m">> -> Some("medium")
      [] s = <<"h", "i", "g", "h">> -> Some("high")
      [] s = <<"c", "r", "i", "t", "i", "c", "a", "l">> -> Some("critical")
      [] OTHER -> None

\* class AgentType, in the order of PRReviewOrchestrator.agents
AgentNames == <<"security", "performance", "testing", "documentation", "standards">>
NumAgents == Len(AgentNames)
AgentType == {AgentNames[i] : i \in 1..NumAgents}

\* settings.balanced_model / settings.fast_model as each agent class binds them
ModelOf(agent) ==
    IF agent \in {"security", "performance"} THEN "qwen2.5-coder:7b" ELSE "llama3.2:3b"

\* class Finding (file_path and line_number are not modelled); suggestion is
\* None or Some(text), confidence is in hundredths.
Finding(agent, severity, title, description, suggestion, confidence) ==
    [agent |-> agent, severity |-> severity, title |-> title,
     description |-> description, suggestion |-> suggestion, confidence |-> confidence]

\* What pydantic checks when a Finding is built: title and description are
\* strings, suggestion is a string or None, confidence (a float, here in
\* hundredths) has ge=0.0 and le=1.0.
FindingValid(title, description, suggestion, confidence) ==
    /\ title.t = "str"
    /\ description.t = "str"
    /\ suggestion.t \in {"str", "null"}
    /\ confidence >= 0
    /\ confidence <= 100

\* class AgentResult
AgentResult(agent, status, findings, execution_time, model_used, error) ==
    [agent |-> agent, status |-> status, findings |-> findings,
     execution_time |-> execution_time, model_used |-> model_used, error |-> error]

-----------------------------------------------------------------------------
(* Exceptions: cls is the class raised, base is "Exception" for every class
   that derives from Exception. *)

Exc(cls, msg) == [cls |-> cls, base |-> "Exception", msg |-> msg]

Raised(e) == [raised |-> TRUE, exc |-> e, value |-> JNull]
Returned(x) == [raised |-> FALSE, exc |-> Exc("", ""), value |-> x]

-----------------------------------------------------------------------------
(* ollama_client.py *)

\* What the backend does with one POST /api/generate.
Reply(kind, wellformed, value) == [kind |-> kind, wellformed |-> wellformed, value |-> value]

\* A generate without its two except clauses: what httpx raises leaves it.
GenerateUntranslated(model, response) ==
    CASE response.kind = "connect_error" ->
           Raised(Exc("httpx.ConnectError", "All connection attempts failed"))
      [] response.kind = "timeout" ->
           Raised(Exc("httpx.ReadTimeout", "timed out"))
      [] response.kind \in {"status_404", "status_500"} ->
           Raised(Exc("httpx.HTTPStatusError", "Client or server error"))
      [] OTHER -> Returned(response)

\* OllamaClient.generate: the response text, or the exception that leaves it.
Generate(model, response) ==
    CASE response.kind = "connect_error" ->
           Raised(Exc("httpx.ConnectError", "All connection attempts failed"))
      [] response.kind = "timeout" ->
           Raised(Exc("TimeoutError", "Model timed out after 120 seconds"))
      [] response.kind = "status_404" ->
           Raised(Exc("ValueError", "Model not found"))
      [] response.kind = "status_500" ->
           Raised(Exc("httpx.HTTPStatusError", "Server error 500"))
      [] OTHER -> Returned(response)

\* OllamaClient.generate_json: json.loads of result.get("response", ""); a
\* "response" that is null makes json.loads raise TypeError.
GenerateJson(model, response) ==
    LET result == Generate(model, response)
    IN  IF result.raised THEN result
        ELSE IF result.value.kind = "null_response"
        THEN Raised(Exc("TypeError", "the JSON object must be str, bytes or bytearray"))
        ELSE IF result.value.wellformed THEN Returned(result.value.value)
        ELSE Raised(Exc("ValueError", "Model returned invalid JSON"))

\* OllamaClient.check_connection: GET /api/tags and raise_for_status.
CheckConnection(response) ==
    CASE response.kind = "connect_error" ->
           Raised(Exc("ConnectionError", "Cannot connect to Ollama"))
      [] response.kind = "timeout" ->
           Raised(Exc("httpx.TimeoutException", "timed out"))
      [] response.kind \in {"status_404", "status_500"} ->
           Raised(Exc("httpx.HTTPStatusError", "Client or server error"))
      [] OTHER -> Returned(TRUE)

\* A generate that posts again after a connection error or a timeout.
PostsWithRetry(response) ==
    IF response.kind \in {"connect_error", "timeout"} THEN 2 ELSE 1

\* One POST /api/generate per call of generate: no loop, no retry.
Posts(response) == 1

\* OllamaClient.close: await self.client.aclose()
Close(handle) == "closed"

-----------------------------------------------------------------------------
(* base_agent.py *)

\* severity_map.get(severity_str, Severity.MEDIUM)
SeverityMap(s) ==
    CASE s = <<"c", "r", "i", "t", "i", "c", "a", "l">> -> "critical"
      [] s = <<"h", "i", "g", "h">> -> "high"
      [] s = <<"m", "e", "d", "i", "u", "m">> -> "medium"
      [] s = <<"l", "o", "w">> -> "low"
      [] s = <<"i", "n", "f", "o">> -> "low"
      [] OTHER -> "medium"

\* The severity of one item: lower().strip(), Severity(...), then the map.
NormalizeSeverity(raw) ==
    LET severity_str == Strip(Lower(raw))
    IN  IF SeverityByValue(severity_str) # None
        THEN SeverityByValue(severity_str)[1]
        ELSE SeverityMap(severity_str)

IsDigit(c) == c \in {"0", "1", "2", "3", "4", "5", "6", "7", "8", "9"}

DigitValue(c) ==
    CHOOSE d \in 0..9 : <<"0", "1", "2", "3", "4", "5", "6", "7", "8", "9">>[d + 1] = c

\* The number a string of digits writes.
RECURSIVE DigitsValue(_)
DigitsValue(s) ==
    IF s = <<>> THEN 0
    ELSE 10 * DigitsValue(SubSeq(s, 1, Len(s) - 1)) + DigitValue(s[Len(s)])

\* The digits after the point, as hundredths (further digits are below the
\* resolution of the model).
Hundredths(frac) ==
    CASE Len(frac) = 0 -> 0
      [] Len(frac) = 1 -> 10 * DigitValue(frac[1])
      [] OTHER -> 10 * DigitValue(frac[1]) + DigitValue(frac[2])

\* float(s) for a string of digits with at most one point: the value in
\* hundredths, or None for the ValueError.
UnsignedFloat(s) ==
    LET points == {i \in 1..Len(s) : s[i] = "."}
    IN  IF \/ Cardinality(points) > 1
           \/ \E i \in 1..Len(s) : ~IsDigit(s[i]) /\ s[i] # "."
           \/ Len(s) = Cardinality(points)
        THEN None
        ELSE LET p == IF points = {} THEN Len(s) + 1 ELSE CHOOSE i \in points : TRUE
             IN  Some(100 * DigitsValue(SubSeq(s, 1, p - 1))
                      + Hundredths(SubSeq(s, p + 1, Len(s))))

\* float(x) as parse_response calls it on item.get("confidence", 0.8): a
\* number is taken as it is, a string is stripped and read with its sign,
\* anything else is a TypeError.  Some(value in hundredths), or None when
\* float raises.
Float(x) ==
    CASE x.t = "num" -> Some(x.v)
      [] x.t = "str" ->
           LET s == Strip(x.v)
           IN  IF s # <<>> /\ Head(s) = "-"
               THEN (IF UnsignedFloat(Tail(s)) = None THEN None
                     ELSE Some(0 - UnsignedFloat(Tail(s))[1]))
               ELSE IF s # <<>> /\ Head(s) = "+" THEN UnsignedFloat(Tail(s))
               ELSE UnsignedFloat(s)
      [] OTHER -> None

\* A parse_response that reads the fields with item["..."]: an item lacking
\* title, description or confidence raises KeyError and is skipped.
ParseItemRequiringFields(agent, item) ==
    IF item.t # "dict" THEN None
    ELSE IF ~({"title", "description", "confidence"} \subseteq DOMAIN item.v) THEN None
    ELSE LET severity_raw == Get(item.v, "severity", JStr(<<"m", "e", "d", "i", "u", "m">>))
             confidence == Float(item.v.confidence)
         IN  IF severity_raw.t # "str" THEN None
             ELSE IF confidence = None THEN None
             ELSE IF ~FindingValid(item.v.title, item.v.description, JNull, confidence[1])
             THEN None
             ELSE Some(Finding(agent, NormalizeSeverity(severity_raw.v),
                               item.v.title.v, item.v.description.v, None, confidence[1]))

\* x or y
Truthy(x) ==
    CASE x.t = "null" -> FALSE
      [] x.t = "num" -> x.v # 0
      [] x.t \in {"str", "list"} -> x.v # <<>>
      [] x.t = "dict" -> DOMAIN x.v # {}
      [] OTHER -> TRUE

Or(x, y) == IF Truthy(x) THEN x ELSE y

\* str(s) for a fragment of a list: a string is itself, None reads "None".
Str(x) ==
    CASE x.t = "str" -> x.v
      [] x.t = "null" -> <<"N", "o", "n", "e">>

\* sep.join(str(s) for s in fragments)
RECURSIVE Join(_, _)
Join(sep, fragments) ==
    IF fragments = <<>> THEN <<>>
    ELSE IF Len(fragments) = 1 THEN Str(fragments[1])
    ELSE Str(Head(fragments)) \o sep \o Join(sep, Tail(fragments))

\* A parse_response without the two isinstance(..., list) branches: a list
\* reaches Finding(...) as it is.
FlattenNothing(sep, raw) == raw

\* if isinstance(raw, list): raw = sep.join(str(s) for s in raw)
Flatten(sep, raw) == IF raw.t = "list" THEN JStr(Join(sep, raw.v)) ELSE raw

\* The body of the loop of parse_response for one item: the Finding appended,
\* or None when the item is skipped (not a dict, or an exception in the try:
\* .lower() on a severity that is not a string, float() on the confidence,
\* the validation of the Finding).
ParseItem(agent, item) ==
    IF item.t # "dict" THEN None
    ELSE LET severity_raw == Get(item.v, "severity", JStr(<<"m", "e", "d", "i", "u", "m">>))
             suggestion_raw ==
                 Flatten(<<";", " ">>, Or(Get(item.v, "suggestion", JNull), Get(item.v, "fix", JNull)))
             description_raw ==
                 Flatten(<<" ">>, Get(item.v, "description", JStr(<<"No description provided">>)))
             title == Get(item.v, "title", JStr(<<"Untitled Finding">>))
             confidence == Float(Get(item.v, "confidence", JNum(80)))
         IN  IF severity_raw.t # "str" THEN None
             ELSE IF confidence = None THEN None
             ELSE IF ~FindingValid(title, description_raw, suggestion_raw, confidence[1])
             THEN None
             ELSE Some(Finding(agent, NormalizeSeverity(severity_raw.v), title.v,
                               description_raw.v,
                               IF suggestion_raw.t = "null" THEN None ELSE Some(suggestion_raw.v),
                               confidence[1]))

\* A parse_response whose loop ends (break) at the first item that is not a
\* dict.
RECURSIVE ParseItemsStopAtNonRecord(_, _)
ParseItemsStopAtNonRecord(agent, items) ==
    IF items = <<>> THEN <<>>
    ELSE IF Head(items).t # "dict" THEN <<>>
    ELSE ParseItem(agent, Head(items)) \o ParseItemsStopAtNonRecord(agent, Tail(items))

\* A parse_response whose try encloses the loop: the first dict item that
\* raises ends the loop, and the findings appended so far are returned.
RECURSIVE ParseItemsStopAtError(_, _)
ParseItemsStopAtError(agent, items) ==
    IF items = <<>> THEN <<>>
    ELSE IF Head(items).t = "dict" /\ ParseItem(agent, Head(items)) = None THEN <<>>
    ELSE ParseItem(agent, Head(items)) \o ParseItemsStopAtError(agent, Tail(items))

RECURSIVE ParseItems(_, _)
ParseItems(agent, items) ==
    IF items = <<>> THEN <<>>
    ELSE ParseItem(agent, Head(items)) \o ParseItems(agent, Tail(items))

\* A parse_response that reads data.get("findings", []) only.
ParseResponseFindingsOnly(agent, data) ==
    IF data.t # "dict"
    THEN Raised(Exc("AttributeError", "object has no attribute 'get'"))
    ELSE LET raw_findings == Get(data.v, "findings", JList(<<>>))
         IN  IF raw_findings.t # "list" THEN Returned(<<>>)
             ELSE Returned(ParseItems(agent, raw_findings.v))

\* A parse_response that takes "issues" whenever the value under "findings"
\* is falsy: data.get("findings") or data.get("issues", []).
ParseResponseFalsyFallback(agent, data) ==
    IF data.t # "dict"
    THEN Raised(Exc("AttributeError", "object has no attribute 'get'"))
    ELSE LET raw_findings ==
                 Or(Get(data.v, "findings", JNull), Get(data.v, "issues", JList(<<>>)))
         IN  IF raw_findings.t # "list" THEN Returned(<<>>)
             ELSE Returned(ParseItems(agent, raw_findings.v))

\* BaseAgent.parse_response: data.get raises AttributeError when data is not
\* a dict.
ParseResponse(agent, data) ==
    IF data.t # "dict"
    THEN Raised(Exc("AttributeError", "object has no attribute 'get'"))
    ELSE LET raw_findings ==
                 Get(data.v, "findings", Get(data.v, "issues", JList(<<>>)))
         IN  IF raw_findings.t # "list" THEN Returned(<<>>)
             ELSE Returned(ParseItems(agent, raw_findings.v))

\* round(elapsed, 2), elapsed in ticks of 1/3 of 0.01 s; the result is in
\* hundredths of a second.
Round2(ticks) == (2 * ticks + 3) \div 6

\* Mutants of Catches: "except ConnectionError as e", and no except clause.
CatchesConnectionErrorOnly(e) == e.cls = "ConnectionError"
CatchesNothing(e) == FALSE

\* except Exception as e: in analyze
Catches(e) == e.base = "Exception"

\* Mutant of OnException: the failed result is built without error=str(e).
OnExceptionWithoutError(agent, e, elapsed) ==
    Returned(AgentResult(agent, "failed", <<>>, Round2(elapsed), ModelOf(agent), None))

\* Mutant of OnException: the failed result is built without model_used.
OnExceptionWithoutModel(agent, e, elapsed) ==
    Returned(AgentResult(agent, "failed", <<>>, Round2(elapsed), "", Some(e.msg)))

\* The except branch of analyze: a failed AgentResult, or the exception
\* leaves analyze when the clause does not catch it.
OnException(agent, e, elapsed) ==
    IF Catches(e)
    THEN Returned(AgentResult(agent, "failed", <<>>, Round2(elapsed),
                              ModelOf(agent), Some(e.msg)))
    ELSE Raised(e)

\* BaseAgent.analyze, for the backend's reply and the time the call took.
Analyze(agent, response, elapsed) ==
    LET result == GenerateJson(ModelOf(agent), response)
    IN  IF result.raised THEN OnException(agent, result.exc, elapsed)
        ELSE LET findings == ParseResponse(agent, result.value)
             IN  IF findings.raised THEN OnException(agent, findings.exc, elapsed)
                 ELSE Returned(AgentResult(agent, "completed", findings.value,
                                           Round2(elapsed), ModelOf(agent), None))

-----------------------------------------------------------------------------
(* schemas.py, orchestrator.py, websocket.py, analysis_service.py:
   the report and the three places that build it *)

\* class AnalysisResult (id, pr_data and created_at are not modelled)
AnalysisResult(results, total_findings, critical_count, high_count, medium_count, low_count, total_execution_time, status) ==
    [agent_results |-> results, total_findings |-> total_findings,
     critical_count |-> critical_count, high_count |-> high_count,
     medium_count |-> medium_count, low_count |-> low_count,
     total_execution_time |-> total_execution_time, status |-> status]

\* Mutant of AllFindings: "all_findings = ar.findings" in place of extend.
AllFindingsLastOnly(results) ==
    IF results = <<>> THEN <<>>
    ELSE results[Len(results)].findings

\* all_findings = []; for ar in agent_results: all_findings.extend(ar.findings)
RECURSIVE AllFindings(_)
AllFindings(results) ==
    IF results = <<>> THEN <<>>
    ELSE Head(results).findings \o AllFindings(Tail(results))

\* A count that takes a finding of a higher severity for one of this too.
RECURSIVE CountSeverityOrAbove(_, _)
CountSeverityOrAbove(all_findings, severity) ==
    IF all_findings = <<>> THEN 0
    ELSE (IF Head(all_findings).severity \in {severity, "critical"} THEN 1 ELSE 0)
         + CountSeverityOrAbove(Tail(all_findings), severity)

\* sum(1 for f in all_findings if f.severity == severity)
RECURSIVE CountSeverity(_, _)
CountSeverity(all_findings, severity) ==
    IF all_findings = <<>> THEN 0
    ELSE (IF Head(all_findings).severity = severity THEN 1 ELSE 0)
         + CountSeverity(Tail(all_findings), severity)

\* max((ar.execution_time for ar in agent_results), default=0)
RECURSIVE MaxTime(_)
MaxTime(results) ==
    IF results = <<>> THEN 0
    ELSE LET rest == MaxTime(Tail(results))
             first == Head(results).execution_time
         IN  IF first > rest THEN first ELSE rest

\* Ticks in a duration given in hundredths of a second.
Ticks(hundredths) == 3 * hundredths

\* PRReviewOrchestrator._aggregate_node
AggregateNode(results) ==
    LET all_findings == AllFindings(results)
        max_time == MaxTime(results)
    IN  AnalysisResult(results, Len(all_findings),
                       CountSeverity(all_findings, "critical"),
                       CountSeverity(all_findings, "high"),
                       CountSeverity(all_findings, "medium"),
                       CountSeverity(all_findings, "low"),
                       Round2(Ticks(max_time)), "completed")

\* handle_analysis, step 4
WsAggregate(results) ==
    LET all_findings == AllFindings(results)
    IN  AnalysisResult(results, Len(all_findings),
                       CountSeverity(all_findings, "critical"),
                       CountSeverity(all_findings, "high"),
                       CountSeverity(all_findings, "medium"),
                       CountSeverity(all_findings, "low"),
                       Round2(Ticks(MaxTime(results))), "completed")

\* AnalysisService.analyze_diff, "Combine results"; total_time is in ticks.
HttpCombine(results, total_time) ==
    LET all_findings == AllFindings(results)
    IN  AnalysisResult(results, Len(all_findings),
                       CountSeverity(all_findings, "critical"),
                       CountSeverity(all_findings, "high"),
                       CountSeverity(all_findings, "medium"),
                       CountSeverity(all_findings, "low"),
                       Round2(total_time), "completed")

\* AnalysisService.analyze_diff, "Create initial result (status: in_progress)"
InProgressResult == AnalysisResult(<<>>, 0, 0, 0, 0, 0, 0, "in_progress")

-----------------------------------------------------------------------------
(* The backend's replies the workers are run against *)

\* {"title": ..., "severity": ..., "description": ...} as the backend writes it
Item(title, severity) ==
    JDict([title |-> JStr(<<title>>), severity |-> JStr(severity),
           description |-> JStr(<<"d">>)])

ReplyOf(name) ==
    CASE name = "connect_error" -> Reply("connect_error", FALSE, JNull)
      [] name = "timeout" -> Reply("timeout", FALSE, JNull)
      [] name = "status_404" -> Reply("status_404", FALSE, JNull)
      [] name = "status_500" -> Reply("status_500", FALSE, JNull)
      [] name = "invalid_json" -> Reply("text", FALSE, JNull)
      [] name = "empty_text" -> Reply("text", FALSE, JNull)
      [] name = "no_response" -> Reply("no_response", FALSE, JNull)
      [] name = "null_response" -> Reply("null_response", FALSE, JNull)
      [] name = "json_string" -> Reply("text", TRUE, JStr(<<"ok">>))
      [] name = "json_number" -> Reply("text", TRUE, JNum(7))
      [] name = "json_null" -> Reply("text", TRUE, JNull)
      [] name = "not_a_dict" -> Reply("text", TRUE, JList(<<>>))
      [] name = "no_findings" -> Reply("text", TRUE, JDict([findings |-> JList(<<>>)]))
      [] name = "findings_null" -> Reply("text", TRUE, JDict([findings |-> JNull]))
      [] name = "issues" ->
           Reply("text", TRUE, JDict([issues |-> JList(<<
               Item("XSS", <<"l", "o", "w">>)>>)]))
      [] name = "findings" ->
           Reply("text", TRUE, JDict([findings |-> JList(<<
               Item("SQLi", <<"c", "r", "i", "t", "i", "c", "a", "l">>),
               JStr(<<"not-a-record">>),
               Item("Secret", <<"H", "I", "G", "H", " ">>),
               Item("Style", <<"w", "e", "i", "r", "d">>)>>)]))

\* The replies a single call of analyze is run against.
ReplyNames ==
    {"connect_error", "timeout", "status_404", "status_500", "invalid_json",
     "not_a_dict", "no_findings", "findings_null", "issues", "findings"}

\* The replies a single call of the gateway is run against.
GatewayReplyNames ==
    ReplyNames \cup {"empty_text", "no_response", "null_response",
                     "json_string", "json_number", "json_null"}

\* The replies each of the five concurrent workers is run against.
RunReplyNames == {"connect_error", "not_a_dict", "findings"}

\* analyze on every call the model makes: the agent, the backend's reply and
\* the duration of the call, with what analyze returns or raises.
AnalyzeOutcomes ==
    {<<a, r, t, Analyze(a, ReplyOf(r), t)>> :
        a \in AgentType, r \in ReplyNames, t \in 0..MaxTicks}

\* await agent.analyze(pr_data) when the backend answers with reply r after
\* t ticks.
AnalyzeCall(a, r, t) ==
    (CHOOSE o \in AnalyzeOutcomes : o[1] = a /\ o[2] = r /\ o[3] = t)[4]

-----------------------------------------------------------------------------
(* State *)

VARIABLES
    path,            \* the entry point: "agent", "coordinator", "websocket", "http"
    phase,           \* Idle, Dispatching, AwaitingAll, Aggregating, Done, Failed
    now,             \* time.time(), in ticks since the workers were started
    wpc,             \* per worker: "idle", "running", "done"; "crashed" when an
                     \* exception left analyze, "raised" when one left its task
    reply,           \* per worker: the backend's reply to its call, once it came
    task_result,     \* per worker: what its task returned (graph write / gather slot)
    agent_results,   \* state["agent_results"] / the list gather returns
    final_result,    \* state["final_result"] / final_result / result
    agg_count,       \* how many times a report was built
    ws_pc,           \* where handle_analysis stands
    ws_i,            \* the index of the next agent_started event
    sink,            \* the client's socket: "ok", "stalled", "broken"
    client,          \* the session's OllamaClient: "none", "open", "closed"
    parse_input,     \* the parsed JSON a single call of parse_response is given
    parsed,          \* what that call, and analyze over the same JSON, gave
    gateway,         \* one call of the OllamaClient: its arguments and outcome
    posts,           \* per worker: the POSTs to /api/generate its analyze made
    events,          \* what was sent on the session's socket, by event_type
    request,         \* the input the client sent: diff_text, pr_url, and what
                     \* GitHub answers for the PR
    diff_text,       \* the handler's diff_text: "absent", "empty", "text"
    http_pc,         \* where routes.analyze_pr stands
    store,           \* AnalysisService._results, in insertion order
    served,          \* what get_result / get_history last returned
    active_connections,  \* ConnectionManager.active_connections: the session ids
    endpoint,        \* per session: where websocket_analyze stands, the
                     \* send_event calls made for it and the events delivered
    runs             \* per overlapping call of run / analyze_diff on one
                     \* object: its change text, position and local state

vars == <<path, phase, now, wpc, reply, task_result, agent_results, final_result,
          agg_count, ws_pc, ws_i, sink, client, parse_input, parsed,
                   gateway, posts, events, request, diff_text, http_pc, store, served,
          active_connections, endpoint, runs>>

Paths == {"agent", "coordinator", "websocket", "http"}

\* Nothing was sent on the socket yet.
NoEvents ==
    [fetch_started |-> 0, fetch_completed |-> 0, analysis_started |-> 0,
     agent_started |-> 0, agent_completed |-> [a \in AgentType |-> 0],
     completed_data |-> [a \in AgentType |-> None],
     analysis_completed |-> 0, error |-> 0]

\* {"diff_text": "..."}: a diff and no pr_url.
DiffRequest == [raw |-> "object", diff_text |-> "text", pr_url |-> "absent", fetched |-> "none"]

\* No gateway call of its own, an accepted request with a diff, an empty
\* store.
SessionIds == 1..MaxSessions

\* websocket_analyze was not called for the session yet.
NewEndpoint == [pc |-> "new", calls |-> 0, sent |-> 0]

\* ConnectionManager.__init__: no connection is registered.
NoSessions ==
    /\ active_connections = {}
    /\ endpoint = [s \in SessionIds |-> NewEndpoint]

RunIds == 1..MaxRuns

\* A call that was not made yet, on the change text it will be given.
IdleRun(diff) ==
    [pc |-> "idle", diff |-> diff, overlapped |-> FALSE,
     task_result |-> [a \in AgentType |-> None],
     agent_results |-> <<>>, final_result |-> None, analysis_id |-> 0]

\* No overlapping calls are followed.
NoRuns == runs = [r \in RunIds |-> IdleRun("text")]

Accepted ==
    /\ gateway = None
    /\ posts = [a \in AgentType |-> 0]
    /\ events = NoEvents
    /\ request = DiffRequest
    /\ diff_text = "text"
    /\ store = <<>>
    /\ served = None
    /\ NoSessions
    /\ NoRuns

Init ==
    /\ path \in Paths
    /\ phase = "Idle"
    /\ now = 0
    /\ wpc = [a \in AgentType |-> "idle"]
    /\ reply = [a \in AgentType |-> "none"]
    /\ task_result = [a \in AgentType |-> None]
    /\ agent_results = <<>>
    /\ final_result = None
    /\ agg_count = 0
    /\ ws_pc = IF path = "websocket" THEN "analysis_started" ELSE "idle"
    /\ ws_i = 1
    /\ sink = "ok"
    /\ client = "none"
    /\ parse_input = JNull
    /\ parsed = None
    /\ http_pc = IF path = "http" THEN "analyze_diff" ELSE "idle"
    /\ Accepted

\* The clock advances while a worker waits for the backend.
Tick ==
    /\ \E a \in AgentType : wpc[a] = "running"
    /\ now < MaxTicks
    /\ now' = now + 1
    /\ UNCHANGED <<path, phase, wpc, reply, task_result, agent_results,
                   final_result, agg_count, ws_pc, ws_i, sink, client, parse_input, parsed,
                   gateway, posts, events, request, diff_text, http_pc, store, served,
                   active_connections, endpoint, runs>>

-----------------------------------------------------------------------------
(* base_agent.py: one agent's analyze called on its own, as the tests do *)

\* start_time = time.time(), up to the await of generate_json
AnalyzeStart(a) ==
    /\ path = "agent"
    /\ \A b \in AgentType : wpc[b] = "idle"
    /\ wpc' = [wpc EXCEPT ![a] = "running"]
    /\ now' = 0
    /\ UNCHANGED <<path, phase, reply, task_result, agent_results, final_result,
                   agg_count, ws_pc, ws_i, sink, client, parse_input, parsed,
                   gateway, posts, events, request, diff_text, http_pc, store, served,
                   active_connections, endpoint, runs>>

\* The backend replies and analyze runs to its return (or an exception
\* leaves it).
AnalyzeReturn(a) ==
    /\ path = "agent"
    /\ wpc[a] = "running"
    /\ \E r \in ReplyNames :
          LET result == AnalyzeCall(a, r, now)
          IN  /\ reply' = [reply EXCEPT ![a] = r]
              /\ posts' = [posts EXCEPT ![a] = @ + Posts(ReplyOf(r))]
              /\ IF result.raised
                 THEN /\ wpc' = [wpc EXCEPT ![a] = "crashed"]
                      /\ UNCHANGED task_result
                 ELSE /\ wpc' = [wpc EXCEPT ![a] = "done"]
                      /\ task_result' = [task_result EXCEPT ![a] = Some(result.value)]
    /\ UNCHANGED <<path, phase, now, agent_results, final_result, agg_count,
                   ws_pc, ws_i, sink, client, parse_input, parsed,
                   gateway, events, request, diff_text, http_pc, store, served,
                   active_connections, endpoint, runs>>

-----------------------------------------------------------------------------
(* orchestrator.py: PRReviewOrchestrator.run over the compiled graph *)

\* run() builds initial_state and ainvoke runs the fan_out node.
FanOutNode ==
    /\ path = "coordinator"
    /\ phase = "Idle"
    /\ phase' = "Dispatching"
    /\ agent_results' = <<>>
    /\ final_result' = None
    /\ UNCHANGED <<path, now, wpc, reply, task_result, agg_count, ws_pc, ws_i, sink, client, parse_input, parsed,
                   gateway, posts, events, request, diff_text, http_pc, store, served,
                   active_connections, endpoint, runs>>

\* _route_to_agents: one Send per key of self.agents; the tasks start together.
RouteToAgents ==
    /\ path = "coordinator"
    /\ phase = "Dispatching"
    /\ phase' = "AwaitingAll"
    /\ wpc' = [a \in AgentType |-> "running"]
    /\ now' = 0
    /\ UNCHANGED <<path, reply, task_result, agent_results, final_result,
                   agg_count, ws_pc, ws_i, sink, client, parse_input, parsed,
                   gateway, posts, events, request, diff_text, http_pc, store, served,
                   active_connections, endpoint, runs>>

\* _agent_worker_node for one Send: the backend replies, analyze returns and
\* the node's write {"agent_results": [result]} is kept with the task.  An
\* exception leaving the node fails the whole ainvoke.
AgentWorkerNode(a) ==
    /\ path = "coordinator"
    /\ phase = "AwaitingAll"
    /\ wpc[a] = "running"
    /\ \E r \in RunReplyNames :
          LET result == AnalyzeCall(a, r, now)
          IN  /\ reply' = [reply EXCEPT ![a] = r]
              /\ posts' = [posts EXCEPT ![a] = @ + Posts(ReplyOf(r))]
              /\ IF result.raised
                 THEN /\ wpc' = [wpc EXCEPT ![a] = "crashed"]
                      /\ phase' = "Failed"
                      /\ UNCHANGED task_result
                 ELSE /\ wpc' = [wpc EXCEPT ![a] = "done"]
                      /\ task_result' = [task_result EXCEPT ![a] = Some(result.value)]
                      /\ UNCHANGED phase
    /\ UNCHANGED <<path, now, agent_results, final_result, agg_count, ws_pc, ws_i, sink, client, parse_input, parsed,
                   gateway, events, request, diff_text, http_pc, store, served,
                   active_connections, endpoint, runs>>

\* The values the finished tasks hold, in the order the tasks were created.
RECURSIVE InTaskOrder(_, _)
InTaskOrder(slots, i) ==
    IF i > NumAgents THEN <<>>
    ELSE slots[AgentNames[i]] \o InTaskOrder(slots, i + 1)

\* The same values, the task that took less time first.
RECURSIVE InTimeOrder(_, _)
InTimeOrder(slots, t) ==
    IF t > Round2(MaxTicks + 1) THEN <<>>
    ELSE SelectSeq(InTaskOrder(slots, 1), LAMBDA r : r.execution_time = t)
         \o InTimeOrder(slots, t + 1)

\* Mutants of ApplyWrites: each write is appended when its task finishes;
\* a channel without a reducer, where the last write replaces the value.
ApplyWritesAsCompleted(old, writes) == old \o InTimeOrder(writes, 0)
ApplyWritesOverwriting(old, writes) == writes[AgentNames[NumAgents]]

\* Mutant of ApplyWrites: the workers append to one findings list they all
\* share, so every result carries the findings of all of them.
ApplyWritesSharedFindings(old, writes) ==
    LET written == InTaskOrder(writes, 1)
    IN  old \o [i \in 1..Len(written) |->
                  [written[i] EXCEPT !.findings = AllFindings(written)]]

\* Annotated[list[AgentResult], operator.add]: the channel's new value is
\* the old one plus each task's write.
ApplyWrites(old, writes) == old \o InTaskOrder(writes, 1)

\* Mutant of AllTasksFinished: the first task to finish ends the wait.
AnyTaskFinished(pcs) == \E a \in AgentType : pcs[a] = "done"

\* What ends the wait for the tasks started together (the graph's step of
\* agent_worker nodes, and asyncio.gather): every one has returned.
AllTasksFinished(pcs) == \A a \in AgentType : pcs[a] = "done"

\* The step of the graph ends when every task has finished; the writes are
\* applied and the aggregate node is scheduled.
StepDone ==
    /\ path = "coordinator"
    /\ phase = "AwaitingAll"
    /\ AllTasksFinished(wpc)
    /\ agent_results' = ApplyWrites(agent_results, task_result)
    /\ phase' = "Aggregating"
    /\ UNCHANGED <<path, now, wpc, reply, task_result, final_result, agg_count,
                   ws_pc, ws_i, sink, client, parse_input, parsed,
                   gateway, posts, events, request, diff_text, http_pc, store, served,
                   active_connections, endpoint, runs>>

\* _aggregate_node, then run() returns final_state["final_result"].
AggregateStep ==
    /\ path = "coordinator"
    /\ phase = "Aggregating"
    /\ final_result' = Some(AggregateNode(agent_results))
    /\ agg_count' = agg_count + 1
    /\ phase' = "Done"
    /\ UNCHANGED <<path, now, wpc, reply, task_result, agent_results, ws_pc, ws_i, sink, client, parse_input, parsed,
                   gateway, posts, events, request, diff_text, http_pc, store, served,
                   active_connections, endpoint, runs>>

-----------------------------------------------------------------------------
(* analysis_service.py: AnalysisService.analyze_diff *)

\* One value of self._results: the report under its id, with the reading of
\* datetime.now() its created_at holds.
StoreEntry(id, created_at, result) == [id |-> id, created_at |-> created_at, result |-> result]

\* str(uuid.uuid4())[:8]: an id no stored report has.
NewId(entries) == Len(entries) + 1

\* The created_at of the report stored last; the clock does not go back.
LastCreated(entries) == IF entries = <<>> THEN 0 ELSE entries[Len(entries)].created_at

\* self._results[analysis_id] = result for an id that is in the dict: the
\* value is replaced and the key keeps its place.
StoreUpdate(entries, id, result) ==
    [i \in DOMAIN entries |->
        IF entries[i].id = id THEN [entries[i] EXCEPT !.result = result] ELSE entries[i]]

\* analyze_diff up to its await: the in-progress result is created and
\* stored, and the security agent is started.
HttpAnalyzeDiff ==
    /\ path = "http"
    /\ http_pc = "analyze_diff"
    /\ wpc["security"] = "idle"
    /\ final_result = None
    /\ final_result' = Some(InProgressResult)
    /\ \E t \in LastCreated(store)..MaxClock :
          store' = Append(store, StoreEntry(NewId(store), t, InProgressResult))
    /\ wpc' = [wpc EXCEPT !["security"] = "running"]
    /\ now' = 0
    /\ UNCHANGED <<path, phase, reply, task_result, agent_results, agg_count,
                   ws_pc, ws_i, sink, client, parse_input, parsed,
                   gateway, posts, events, request, diff_text, http_pc, served,
                   active_connections, endpoint, runs>>

\* The backend replies, analyze returns, and analyze_diff runs to its end:
\* total_time is measured by the service's own two clock readings, which
\* enclose the readings of analyze.
HttpCombineStep ==
    /\ path = "http"
    /\ wpc["security"] = "running"
    /\ \E r \in ReplyNames, overhead \in 0..MaxOverhead :
          LET security_result == AnalyzeCall("security", r, now)
              total_time == now + overhead
          IN  /\ reply' = [reply EXCEPT !["security"] = r]
              /\ posts' = [posts EXCEPT !["security"] = @ + Posts(ReplyOf(r))]
              /\ IF security_result.raised
                 THEN /\ wpc' = [wpc EXCEPT !["security"] = "crashed"]
                      /\ UNCHANGED <<task_result, agent_results, final_result, agg_count,
                                     store>>
                 ELSE /\ wpc' = [wpc EXCEPT !["security"] = "done"]
                      /\ task_result' =
                             [task_result EXCEPT !["security"] = Some(security_result.value)]
                      /\ agent_results' = <<security_result.value>>
                      /\ final_result' =
                             Some(HttpCombine(<<security_result.value>>, total_time))
                      /\ store' = StoreUpdate(store, Len(store),
                                     HttpCombine(<<security_result.value>>, total_time))
                      /\ agg_count' = agg_count + 1
    /\ UNCHANGED <<path, phase, now, ws_pc, ws_i, sink, client, parse_input, parsed,
                   gateway, events, request, diff_text, http_pc, served,
                   active_connections, endpoint, runs>>

\* A get_history that returns the values of the dict as they are.
InsertionOrder(entries) == entries

\* The entries stamped t, then those stamped earlier: the older entry first
\* among equals, as the stable sort leaves them.
RECURSIVE NewestFirst(_, _)
NewestFirst(entries, t) ==
    IF t < 0 THEN <<>>
    ELSE SelectSeq(entries, LAMBDA e : e.created_at = t) \o NewestFirst(entries, t - 1)

\* results.sort(key=lambda r: r.created_at, reverse=True)
SortedByCreatedAt(entries) == NewestFirst(entries, MaxClock)

\* results[:limit], for a limit of either sign
Prefix(xs, limit) ==
    IF limit >= 0
    THEN SubSeq(xs, 1, IF limit < Len(xs) THEN limit ELSE Len(xs))
    ELSE SubSeq(xs, 1, IF Len(xs) + limit > 0 THEN Len(xs) + limit ELSE 0)

\* GET /api/analysis/{id} on another request: get_result; the route answers
\* 404 when it gives None.
GetResult(id) ==
    /\ path = "http"
    /\ served' = Some([op |-> "get_result", arg |-> id,
                         value |-> SelectSeq(store, LAMBDA e : e.id = id)])
    /\ UNCHANGED <<path, phase, now, wpc, reply, task_result, agent_results,
                   final_result, agg_count, ws_pc, ws_i, sink, client, parse_input, parsed,
                   gateway, posts, events, request, diff_text, http_pc, store,
                   active_connections, endpoint, runs>>

\* GET /api/history?limit=... on another request: get_history.
GetHistory(limit) ==
    /\ path = "http"
    /\ served' = Some([op |-> "get_history", arg |-> limit,
                         value |-> Prefix(SortedByCreatedAt(store), limit)])
    /\ UNCHANGED <<path, phase, now, wpc, reply, task_result, agent_results,
                   final_result, agg_count, ws_pc, ws_i, sink, client, parse_input, parsed,
                   gateway, posts, events, request, diff_text, http_pc, store,
                   active_connections, endpoint, runs>>

-----------------------------------------------------------------------------
(* websocket.py: handle_analysis, from the analysis_started event on *)

\* manager.send_event(session_id, make_event(event_type, ...)) returned.
Sent(sent, event_type) == [sent EXCEPT ![event_type] = @ + 1]

\* A loop that sends one agent_started event and goes on to gather.
StartOneOnly(i) == FALSE

\* for name, _ in agents_config: there is another agent to announce.
MoreToStart(i) == i < NumAgents

\* An agent_completed event whose status is always "completed".
AgentCompletedDataAlwaysCompleted(result) ==
    [findings_count |-> Len(result.findings), execution_time |-> result.execution_time,
     status |-> "completed"]

\* data= of the agent_completed event
AgentCompletedData(result) ==
    [findings_count |-> Len(result.findings), execution_time |-> result.execution_time,
     status |-> result.status]

\* The client's socket stops accepting data while the handler is about to
\* send on it, accepts again, or is closed.  (A socket that stalls between
\* two agent_completed events is not modelled.)
SinkStall ==
    /\ path = "websocket"
    /\ ws_pc \in {"analysis_started", "agent_started", "analysis_completed"}
    /\ sink = "ok"
    /\ sink' = "stalled"
    /\ UNCHANGED <<path, phase, now, wpc, reply, task_result, agent_results,
                   final_result, agg_count, ws_pc, ws_i, client, parse_input, parsed,
                   gateway, posts, events, request, diff_text, http_pc, store, served,
                   active_connections, endpoint, runs>>

SinkResume ==
    /\ path = "websocket"
    /\ sink = "stalled"
    /\ sink' = "ok"
    /\ UNCHANGED <<path, phase, now, wpc, reply, task_result, agent_results,
                   final_result, agg_count, ws_pc, ws_i, client, parse_input, parsed,
                   gateway, posts, events, request, diff_text, http_pc, store, served,
                   active_connections, endpoint, runs>>

SinkBreak ==
    /\ path = "websocket"
    /\ ws_pc \notin {"except", "exit"}
    /\ sink \in {"ok", "stalled"}
    /\ sink' = "broken"
    /\ UNCHANGED <<path, phase, now, wpc, reply, task_result, agent_results,
                   final_result, agg_count, ws_pc, ws_i, client, parse_input, parsed,
                   gateway, posts, events, request, diff_text, http_pc, store, served,
                   active_connections, endpoint, runs>>

\* await manager.send_event(... "analysis_started" ...) returns; the client
\* and the orchestrator are built.
WsAnalysisStarted ==
    /\ path = "websocket"
    /\ ws_pc = "analysis_started"
    /\ sink = "ok"
    /\ ws_pc' = "agent_started"
    /\ ws_i' = 1
    /\ phase' = "Dispatching"
    /\ client' = "open"
    /\ events' = Sent(events, "analysis_started")
    /\ UNCHANGED <<path, now, wpc, reply, task_result, agent_results, final_result,
                   agg_count, sink, parse_input, parsed,
                   gateway, posts, request, diff_text, http_pc, store, served,
                   active_connections, endpoint, runs>>

\* One turn of "for name, _ in agents_config: await send_event(agent_started)";
\* after the last one asyncio.gather starts the five run_and_report tasks.
WsAgentStarted ==
    /\ path = "websocket"
    /\ ws_pc = "agent_started"
    /\ sink = "ok"
    /\ events' = Sent(events, "agent_started")
    /\ IF MoreToStart(ws_i)
       THEN /\ ws_i' = ws_i + 1
            /\ UNCHANGED <<ws_pc, phase, wpc, now>>
       ELSE /\ ws_pc' = "gather"
            /\ phase' = "AwaitingAll"
            /\ wpc' = [a \in AgentType |-> "running"]
            /\ now' = 0
            /\ UNCHANGED ws_i
    /\ UNCHANGED <<path, reply, task_result, agent_results, final_result,
                   agg_count, sink, client, parse_input, parsed,
                   gateway, posts, request, diff_text, http_pc, store, served,
                   active_connections, endpoint, runs>>

\* A send of the handler itself raises: control passes to "except Exception".
WsSendRaises ==
    /\ path = "websocket"
    /\ ws_pc \in {"analysis_started", "agent_started", "analysis_completed"}
    /\ sink = "broken"
    /\ ws_pc' = "except"
    /\ phase' = IF phase = "Done" THEN phase ELSE "Failed"
    /\ UNCHANGED <<path, now, wpc, reply, task_result, agent_results, final_result,
                   agg_count, ws_i, sink, client, parse_input, parsed,
                   gateway, posts, events, request, diff_text, http_pc, store, served,
                   active_connections, endpoint, runs>>

\* What gather does to the handler when a task ends with an exception: the
\* first one is raised in handle_analysis at once.
GatherSees(pc) == IF pc = "gather" THEN "except" ELSE pc

\* Mutant of GatherLeaves: gather cancels the tasks that still run.
GatherCancels(pcs) ==
    [a \in DOMAIN pcs |-> IF pcs[a] = "running" THEN "cancelled" ELSE pcs[a]]

\* What gather does to the other tasks when one ends with an exception:
\* nothing, they are not cancelled and continue to run.
GatherLeaves(pcs) == pcs

\* run_and_report(name, agent): the backend replies, analyze returns, and
\* the agent_completed event is sent or its send raises.  Once the handler has
\* left (main.py has removed the session) send_event does nothing, and the
\* result is returned to a task nobody awaits.
RunAndReport(a) ==
    /\ path = "websocket"
    /\ wpc[a] = "running"
    /\ \E r \in RunReplyNames :
          LET result == AnalyzeCall(a, r, now)
          IN  /\ posts' = [posts EXCEPT ![a] = @ + Posts(ReplyOf(r))]
              /\ IF result.raised \/ (sink = "broken" /\ ws_pc # "exit")
                 THEN /\ wpc' = GatherLeaves([wpc EXCEPT ![a] =
                                    IF result.raised THEN "crashed" ELSE "raised"])
                      /\ ws_pc' = GatherSees(ws_pc)
                      /\ phase' = IF ws_pc = "gather" THEN "Failed" ELSE phase
                      /\ UNCHANGED <<reply, task_result, events>>
                 ELSE IF ws_pc = "exit"
                 THEN /\ wpc' = [wpc EXCEPT ![a] = "done"]
                      /\ UNCHANGED <<reply, task_result, ws_pc, phase, events>>
                 ELSE /\ wpc' = [wpc EXCEPT ![a] = "done"]
                      /\ reply' = [reply EXCEPT ![a] = r]
                      /\ task_result' = [task_result EXCEPT ![a] = Some(result.value)]
                      /\ events' = [events EXCEPT
                             !.agent_completed[a] = @ + 1,
                             !.completed_data[a] = Some(AgentCompletedData(result.value))]
                      /\ UNCHANGED <<ws_pc, phase>>
    /\ UNCHANGED <<path, now, agent_results, final_result, agg_count, ws_i, sink, client, parse_input, parsed,
                   gateway, request, diff_text, http_pc, store, served,
                   active_connections, endpoint, runs>>

\* The results of the tasks, in the order the tasks were given to gather.
GatherResults(slots) == InTaskOrder(slots, 1)

\* agent_results = await asyncio.gather(...): every task has returned.
WsGatherReturns ==
    /\ path = "websocket"
    /\ ws_pc = "gather"
    /\ AllTasksFinished(wpc)
    /\ agent_results' = GatherResults(task_result)
    /\ ws_pc' = "aggregate"
    /\ phase' = "Aggregating"
    /\ UNCHANGED <<path, now, wpc, reply, task_result, final_result, agg_count,
                   ws_i, sink, client, parse_input, parsed,
                   gateway, posts, events, request, diff_text, http_pc, store, served,
                   active_connections, endpoint, runs>>

\* Step 4: final_result is built.
WsBuildResult ==
    /\ path = "websocket"
    /\ ws_pc = "aggregate"
    /\ final_result' = Some(WsAggregate(agent_results))
    /\ agg_count' = agg_count + 1
    /\ ws_pc' = "analysis_completed"
    /\ phase' = "Done"
    /\ UNCHANGED <<path, now, wpc, reply, task_result, agent_results, ws_i, sink, client, parse_input, parsed,
                   gateway, posts, events, request, diff_text, http_pc, store, served,
                   active_connections, endpoint, runs>>

\* The analysis_completed event is sent and client.close() is awaited.
WsAnalysisCompleted ==
    /\ path = "websocket"
    /\ ws_pc = "analysis_completed"
    /\ sink = "ok"
    /\ ws_pc' = "exit"
    /\ client' = Close(client)
    /\ events' = Sent(events, "analysis_completed")
    /\ UNCHANGED <<path, phase, now, wpc, reply, task_result, agent_results,
                   final_result, agg_count, ws_i, sink, parse_input, parsed,
                   gateway, posts, request, diff_text, http_pc, store, served,
                   active_connections, endpoint, runs>>

\* except Exception: the error event is sent, or its send raises too; either
\* way handle_analysis is left.
WsExcept ==
    /\ path = "websocket"
    /\ ws_pc = "except"
    /\ sink # "stalled"
    /\ ws_pc' = "exit"
    /\ events' = IF sink = "ok" THEN Sent(events, "error") ELSE events
    /\ UNCHANGED <<path, phase, now, wpc, reply, task_result, agent_results,
                   final_result, agg_count, ws_i, sink, client, parse_input, parsed,
                   gateway, posts, request, diff_text, http_pc, store, served,
                   active_connections, endpoint, runs>>

Next ==
    \/ Tick
    \/ \E a \in AgentType : AnalyzeStart(a)
    \/ \E a \in AgentType : AnalyzeReturn(a)
    \/ FanOutNode
    \/ RouteToAgents
    \/ \E a \in AgentType : AgentWorkerNode(a)
    \/ StepDone
    \/ AggregateStep
    \/ HttpAnalyzeDiff
    \/ HttpCombineStep
    \/ SinkStall
    \/ SinkResume
    \/ SinkBreak
    \/ WsAnalysisStarted
    \/ WsAgentStarted
    \/ WsSendRaises
    \/ \E a \in AgentType : RunAndReport(a)
    \/ WsGatherReturns
    \/ WsBuildResult
    \/ WsAnalysisCompleted
    \/ WsExcept
    \/ \E id \in 1..(MaxStored + 2) : GetResult(id)
    \/ \E limit \in (0 - 1)..(MaxStored + 2) : GetHistory(limit)

Spec == Init /\ [][Next]_vars

\* One run of the orchestrator alone.  The event loop runs every task that
\* can run, and every gateway call returns or fails (the client's 120 s
\* timeout, ollama_client.py:45), so a step that stays possible is taken.
CoordInit == Init /\ path = "coordinator"

CoordNext ==
    \/ Tick
    \/ FanOutNode
    \/ RouteToAgents
    \/ \E a \in AgentType : AgentWorkerNode(a)
    \/ StepDone
    \/ AggregateStep

CoordSpec == CoordInit /\ [][CoordNext]_vars /\ WF_vars(CoordNext)

-----------------------------------------------------------------------------
(* base_agent.py: parse_response called on its own, over the elements a
   backend may put in the list *)

ItemKinds ==
    {JDict([title |-> JStr(<<"SQLi">>),
            severity |-> JStr(<<"c", "r", "i", "t", "i", "c", "a", "l">>),
            description |-> JStr(<<"d">>), confidence |-> JNum(90)]),
     JStr(<<"not-a-record">>),
     JDict([severity |-> JStr(<<"H", "I", "G", "H", " ">>)]),
     JDict([title |-> JStr(<<"Style">>), severity |-> JStr(<<"w", "e", "i", "r", "d">>)]),
     JDict([title |-> JStr(<<"Note">>), severity |-> JStr(<<" ", "I", "n", "f", "o">>)]),
     JDict([title |-> JStr(<<"NoSeverity">>), description |-> JStr(<<"d">>)]),
     JDict([title |-> JStr(<<"Sure">>), confidence |-> JNum(150)]),
     JDict([title |-> JStr(<<"Unsure">>), confidence |-> JNum(0 - 10)]),
     JDict([title |-> JStr(<<"Words">>), confidence |-> JStr(<<"h", "i", "g", "h">>)]),
     JDict([title |-> JStr(<<"Quoted">>), confidence |-> JStr(<<"0", ".", "9">>)]),
     JDict([title |-> JStr(<<"NullSeverity">>), severity |-> JNull]),
     JDict([title |-> JNum(7), severity |-> JStr(<<"l", "o", "w">>)])}

\* The lists of at most MaxItems elements.
ItemLists == UNION {[1..n -> ItemKinds] : n \in 0..MaxItems}

\* The parsed values parse_response is called with: an object holding a list
\* under "findings" or under "issues", an object whose "findings" is not a
\* list, an object with neither key, and a value that is not an object.
ParseInputs ==
    {JDict([findings |-> JList(l)]) : l \in ItemLists}
    \cup {JDict([issues |-> JList(l)]) : l \in ItemLists}
    \cup {JDict([findings |-> JNull]), JDict([summary |-> JStr(<<"ok">>)]), JList(<<>>)}

ParseInit ==
    /\ path = "parse_response"
    /\ phase = "Idle"
    /\ now = 0
    /\ wpc = [a \in AgentType |-> "idle"]
    /\ reply = [a \in AgentType |-> "none"]
    /\ task_result = [a \in AgentType |-> None]
    /\ agent_results = <<>>
    /\ final_result = None
    /\ agg_count = 0
    /\ ws_pc = "idle"
    /\ ws_i = 1
    /\ sink = "ok"
    /\ client = "none"
    /\ parse_input \in ParseInputs
    /\ parsed = None
    /\ http_pc = "idle"
    /\ Accepted

\* findings = self.parse_response(result), and analyze as a whole when
\* generate_json returns the same value.
ParseStep(a) ==
    /\ path = "parse_response"
    /\ parsed = None
    /\ parsed' = Some([agent |-> a,
                       out |-> ParseResponse(a, parse_input),
                       result |-> Analyze(a, Reply("text", TRUE, parse_input), 0).value])
    /\ UNCHANGED <<path, phase, now, wpc, reply, task_result, agent_results,
                   final_result, agg_count, ws_pc, ws_i, sink, client, parse_input,
                   gateway, posts, events, request, diff_text, http_pc, store, served,
                   active_connections, endpoint, runs>>

ParseNext == \E a \in AgentType : ParseStep(a)

ParseSpec == ParseInit /\ [][ParseNext]_vars

\* Elements whose suggestion, fix or description may be a list.
FlattenKinds ==
    {JDict([title |-> JStr(<<"T">>),
            description |-> JList(<<JStr(<<"a">>), JStr(<<"b">>)>>),
            suggestion |-> JList(<<JStr(<<"x">>), JStr(<<"y">>), JStr(<<"z">>)>>)]),
     JDict([title |-> JStr(<<"T">>), description |-> JStr(<<"d">>),
            fix |-> JList(<<JStr(<<"x">>), JStr(<<"y">>)>>)]),
     JDict([title |-> JStr(<<"T">>), description |-> JList(<<JStr(<<"a">>)>>),
            suggestion |-> JStr(<<"s">>)]),
     JDict([title |-> JStr(<<"T">>), description |-> JList(<<>>),
            suggestion |-> JList(<<>>), fix |-> JStr(<<"f">>)]),
     JDict([title |-> JStr(<<"T">>), description |-> JList(<<JStr(<<"a">>), JNull>>)]),
     JDict([title |-> JStr(<<"T">>), description |-> JStr(<<"d">>)]),
     JDict([title |-> JStr(<<"T">>), description |-> JStr(<<"d">>), suggestion |-> JNum(5)])}

FlattenInputs ==
    {JDict([findings |-> JList(l)]) : l \in UNION {[1..n -> FlattenKinds] : n \in 0..MaxItems}}

FlattenInit ==
    /\ path = "parse_response"
    /\ phase = "Idle"
    /\ now = 0
    /\ wpc = [a \in AgentType |-> "idle"]
    /\ reply = [a \in AgentType |-> "none"]
    /\ task_result = [a \in AgentType |-> None]
    /\ agent_results = <<>>
    /\ final_result = None
    /\ agg_count = 0
    /\ ws_pc = "idle"
    /\ ws_i = 1
    /\ sink = "ok"
    /\ client = "none"
    /\ parse_input \in FlattenInputs
    /\ parsed = None
    /\ http_pc = "idle"
    /\ Accepted

FlattenSpec == FlattenInit /\ [][ParseNext]_vars

\* The values a reply holds under "findings" or "issues": an empty list,
\* null, a string, a number, an object, and lists of one and of two records.
KeyValues ==
    {JList(<<>>), JNull, JStr(<<"none">>), JNum(0),
     JDict([title |-> JStr(<<"SQLi">>)]),
     JList(<<Item("SQLi", <<"c", "r", "i", "t", "i", "c", "a", "l">>)>>),
     JList(<<Item("Secret", <<"h", "i", "g", "h">>),
             Item("Style", <<"l", "o", "w">>)>>)}

\* Parsed objects with "findings", with "issues", with both and with neither.
KeyInputs ==
    {JDict([findings |-> f, issues |-> i]) : f \in KeyValues, i \in KeyValues}
    \cup {JDict([findings |-> f]) : f \in KeyValues}
    \cup {JDict([issues |-> i]) : i \in KeyValues}
    \cup {JDict([summary |-> JStr(<<"ok">>)])}

KeyInit ==
    /\ path = "parse_response"
    /\ phase = "Idle"
    /\ now = 0
    /\ wpc = [a \in AgentType |-> "idle"]
    /\ reply = [a \in AgentType |-> "none"]
    /\ task_result = [a \in AgentType |-> None]
    /\ agent_results = <<>>
    /\ final_result = None
    /\ agg_count = 0
    /\ ws_pc = "idle"
    /\ ws_i = 1
    /\ sink = "ok"
    /\ client = "none"
    /\ parse_input \in KeyInputs
    /\ parsed = None
    /\ http_pc = "idle"
    /\ Accepted

KeySpec == KeyInit /\ [][ParseNext]_vars

-----------------------------------------------------------------------------
(* websocket.py, routes.py: a session or a request from its input on *)

\* A "not x" that is true of None only, and lets "" through.
MissingNoneOnly(x) == x = "absent"

\* not x, for a diff_text or a pr_url: None and "" are both falsy.
Missing(x) == x \in {"absent", "empty"}

\* The inputs: diff_text and pr_url each absent, "" or given, and for a
\* pr_url that is given what fetch_pr_from_url does: it raises, or returns a
\* PR whose raw_diff is "" or a text.
Requests ==
    {[raw |-> "object", diff_text |-> d, pr_url |-> u, fetched |-> f] :
        d \in {"absent", "empty", "text"}, u \in {"absent", "empty"}, f \in {"none"}}
    \cup {[raw |-> "object", diff_text |-> d, pr_url |-> "url", fetched |-> f] :
             d \in {"absent", "empty", "text"}, f \in {"raises", "empty", "text"}}
    \cup {[raw |-> r, diff_text |-> "absent", pr_url |-> "absent", fetched |-> "none"] :
             r \in {"invalid", "not_object"}}

\* json.loads(raw_data) and the two input_data.get: what is raised on a text
\* that is not JSON, and on JSON that is not an object.
ReceiveRaises(raw) ==
    CASE raw = "invalid" -> Some("JSONDecodeError")
      [] raw = "not_object" -> Some("AttributeError")
      [] OTHER -> None

\* Except clauses in which invalid JSON passes in silence, as a disconnect.
ErrorEventsJsonSilent(exc) ==
    IF exc \in {"WebSocketDisconnect", "JSONDecodeError"} THEN 0 ELSE 1

\* The except clauses of handle_analysis: nothing is sent on a
\* WebSocketDisconnect, one error event on any other exception.
ErrorEvents(exc) == IF exc = "WebSocketDisconnect" THEN 0 ELSE 1

SessionInit ==
    /\ path \in {"websocket", "http"}
    /\ phase = "Idle"
    /\ now = 0
    /\ wpc = [a \in AgentType |-> "idle"]
    /\ reply = [a \in AgentType |-> "none"]
    /\ task_result = [a \in AgentType |-> None]
    /\ agent_results = <<>>
    /\ final_result = None
    /\ agg_count = 0
    /\ ws_pc = IF path = "websocket" THEN "receive" ELSE "idle"
    /\ ws_i = 1
    /\ sink = "ok"
    /\ client = "none"
    /\ parse_input = JNull
    /\ parsed = None
    /\ http_pc = IF path = "http" THEN "analyze_pr" ELSE "idle"
    /\ gateway = None
    /\ posts = [a \in AgentType |-> 0]
    /\ events = NoEvents
    /\ request \in Requests
    /\ diff_text = request.diff_text
    /\ store = <<>>
    /\ served = None
    /\ NoSessions
    /\ NoRuns

\* handle_analysis from receive_text to the fetch: on input that is not a
\* JSON object the except clauses act; with neither input the
\* error event is sent and the handler returns; with a pr_url fetch_started
\* is sent.
WsReceive ==
    /\ path = "websocket"
    /\ ws_pc = "receive"
    /\ IF ReceiveRaises(request.raw) # None
       THEN /\ events' = IF ErrorEvents(ReceiveRaises(request.raw)[1]) = 1
                         THEN Sent(events, "error") ELSE events
            /\ ws_pc' = "exit"
       ELSE IF Missing(request.pr_url) /\ Missing(diff_text)
       THEN /\ events' = Sent(events, "error")
            /\ ws_pc' = "exit"
       ELSE IF ~Missing(request.pr_url)
       THEN /\ events' = Sent(events, "fetch_started")
            /\ ws_pc' = "fetch"
       ELSE /\ ws_pc' = "analysis_started"
            /\ UNCHANGED events
    /\ UNCHANGED <<path, phase, now, wpc, reply, task_result, agent_results,
                   final_result, agg_count, ws_i, sink, client, parse_input, parsed,
                   gateway, posts, store, served, request, diff_text, http_pc,
                   active_connections, endpoint, runs>>

\* fetch_pr_from_url returns or raises; diff_text = pr_data.raw_diff, and a
\* diff_text that is empty ends the session with an error event.
WsFetch ==
    /\ path = "websocket"
    /\ ws_pc = "fetch"
    /\ IF request.fetched = "raises"
       THEN /\ events' = Sent(events, "error")
            /\ ws_pc' = "exit"
            /\ UNCHANGED diff_text
       ELSE /\ diff_text' = request.fetched
            /\ IF Missing(request.fetched)
               THEN /\ events' = Sent(Sent(events, "fetch_completed"), "error")
                    /\ ws_pc' = "exit"
               ELSE /\ events' = Sent(events, "fetch_completed")
                    /\ ws_pc' = "analysis_started"
    /\ UNCHANGED <<path, phase, now, wpc, reply, task_result, agent_results,
                   final_result, agg_count, ws_i, sink, client, parse_input, parsed,
                   gateway, posts, store, served, request, http_pc,
                   active_connections, endpoint, runs>>

\* routes.analyze_pr: 400 with neither input, 501 with a pr_url, else
\* analyze_diff is awaited.
AnalyzePr ==
    /\ path = "http"
    /\ http_pc = "analyze_pr"
    /\ http_pc' = IF Missing(diff_text) /\ Missing(request.pr_url) THEN "status_400"
                  ELSE IF ~Missing(request.pr_url) THEN "status_501"
                  ELSE "analyze_diff"
    /\ UNCHANGED <<path, phase, now, wpc, reply, task_result, agent_results,
                   final_result, agg_count, ws_i, sink, client, parse_input, parsed,
                   gateway, posts, store, served, ws_pc, events, request, diff_text,
                   active_connections, endpoint, runs>>

\* A session or a request whose connection works.
SessionNext ==
    \/ Tick
    \/ WsReceive
    \/ WsFetch
    \/ AnalyzePr
    \/ HttpAnalyzeDiff
    \/ HttpCombineStep
    \/ WsAnalysisStarted
    \/ WsAgentStarted
    \/ \E a \in AgentType : RunAndReport(a)
    \/ WsGatherReturns
    \/ WsBuildResult
    \/ WsAnalysisCompleted

SessionSpec == SessionInit /\ [][SessionNext]_vars

-----------------------------------------------------------------------------
(* websocket.py, main.py: the connection manager over several sessions *)

\* self.active_connections[session_id] = websocket
Connect(active, s) == active \cup {s}

\* self.active_connections.pop(session_id, None)
Disconnect(active, s) == active \ {s}

\* ws = self.active_connections.get(session_id); if ws:
Registered(active, s) == s \in active

\* The ways handle_analysis ends: after analysis_completed, after an error
\* event, on a WebSocketDisconnect that is passed, or with the exception
\* that the send of an error event raised in an except clause.
HandlerOutcomes == {"completed", "error", "disconnect", "raised"}

\* A websocket_analyze without finally: disconnect is not reached when
\* handle_analysis raises.
AfterHandlerNoFinally(active, s, outcome) ==
    IF outcome = "raised" THEN active ELSE Disconnect(active, s)

\* try: await handle_analysis(...) finally: manager.disconnect(session_id)
AfterHandler(active, s, outcome) == Disconnect(active, s)

RegistryInit ==
    /\ path = "manager"
    /\ phase = "Idle"
    /\ now = 0
    /\ wpc = [a \in AgentType |-> "idle"]
    /\ reply = [a \in AgentType |-> "none"]
    /\ task_result = [a \in AgentType |-> None]
    /\ agent_results = <<>>
    /\ final_result = None
    /\ agg_count = 0
    /\ ws_pc = "idle"
    /\ ws_i = 1
    /\ sink = "ok"
    /\ client = "none"
    /\ parse_input = JNull
    /\ parsed = None
    /\ http_pc = "idle"
    /\ Accepted

\* websocket_analyze up to the try: manager.connect accepts the socket and
\* registers the session, or accept raises and nothing is registered.
WebsocketAnalyze(s) ==
    /\ path = "manager"
    /\ endpoint[s].pc = "new"
    /\ \E accepted \in BOOLEAN :
          IF accepted
          THEN /\ active_connections' = Connect(active_connections, s)
               /\ endpoint' = [endpoint EXCEPT ![s].pc = "handling"]
          ELSE /\ endpoint' = [endpoint EXCEPT ![s].pc = "accept_raised"]
               /\ UNCHANGED active_connections
    /\ UNCHANGED <<path, phase, now, wpc, reply, task_result, agent_results, final_result,
                   agg_count, ws_pc, ws_i, sink, client, parse_input, parsed,
                   gateway, posts, events, request, diff_text, http_pc, store, served, runs>>

\* manager.send_event(session_id, event), from the handler or from a task
\* that outlives it: the event goes to the socket registered under the id,
\* whose send_json returns or raises, and nowhere when none is registered.
SendEvent(s) ==
    /\ path = "manager"
    /\ endpoint[s].calls < MaxSends
    /\ \E delivered \in BOOLEAN :
          endpoint' = [endpoint EXCEPT
              ![s].calls = @ + 1,
              ![s].sent = IF Registered(active_connections, s) /\ delivered
                          THEN @ + 1 ELSE @]
    /\ UNCHANGED <<path, phase, now, wpc, reply, task_result, agent_results, final_result,
                   agg_count, ws_pc, ws_i, sink, client, parse_input, parsed,
                   gateway, posts, events, request, diff_text, http_pc, store, served,
                   active_connections, runs>>

\* handle_analysis ends and the finally clause of websocket_analyze runs.
HandlerEnds(s, outcome) ==
    /\ path = "manager"
    /\ endpoint[s].pc = "handling"
    /\ active_connections' = AfterHandler(active_connections, s, outcome)
    /\ endpoint' = [endpoint EXCEPT ![s].pc = outcome]
    /\ UNCHANGED <<path, phase, now, wpc, reply, task_result, agent_results, final_result,
                   agg_count, ws_pc, ws_i, sink, client, parse_input, parsed,
                   gateway, posts, events, request, diff_text, http_pc, store, served, runs>>

RegistryNext ==
    \/ \E s \in SessionIds : WebsocketAnalyze(s)
    \/ \E s \in SessionIds : SendEvent(s)
    \/ \E s \in SessionIds, outcome \in HandlerOutcomes : HandlerEnds(s, outcome)

RegistrySpec == RegistryInit /\ [][RegistryNext]_vars

-----------------------------------------------------------------------------
(* orchestrator.py, analysis_service.py: overlapping calls on one object *)

\* The change text a call is given: consecutive calls are given different
\* texts.
DiffOf(r) == IF r % 2 = 1 THEN "diff_a" ELSE "diff_b"

\* What the backend answers an agent's prompt over a change text: the reply
\* is fixed by the text and the agent, so that a result tells the call it
\* was produced for.
ReplyTo(diff, a) ==
    IF diff = "diff_a" THEN "findings"
    ELSE IF a = "security" THEN "connect_error" ELSE "not_a_dict"

\* self.agents of the orchestrator; the service has its security_agent only.
Workers(entry) == IF entry = "http" THEN {"security"} ELSE AgentType

\* A write that goes to one accumulator all the calls in flight share.
WriteShared(rs, r, a, result) ==
    [q \in DOMAIN rs |->
        IF rs[q].pc = "awaiting"
        THEN [rs[q] EXCEPT !.task_result[a] = Some(result)]
        ELSE rs[q]]

\* return {"agent_results": [result]} into the state of the node's own
\* ainvoke; agent_results.append(security_result) on the call's own list.
Write(rs, r, a, result) == [rs EXCEPT ![r].task_result[a] = Some(result)]

OverlapInit ==
    /\ path \in {"coordinator", "http"}
    /\ phase = "Idle"
    /\ now = 0
    /\ wpc = [a \in AgentType |-> "idle"]
    /\ reply = [a \in AgentType |-> "none"]
    /\ task_result = [a \in AgentType |-> None]
    /\ agent_results = <<>>
    /\ final_result = None
    /\ agg_count = 0
    /\ ws_pc = "idle"
    /\ ws_i = 1
    /\ sink = "ok"
    /\ client = "none"
    /\ parse_input = JNull
    /\ parsed = None
    /\ http_pc = "idle"
    /\ gateway = None
    /\ posts = [a \in AgentType |-> 0]
    /\ events = NoEvents
    /\ request = DiffRequest
    /\ diff_text = "text"
    /\ store = <<>>
    /\ served = None
    /\ NoSessions
    /\ runs = [r \in RunIds |-> IdleRun(DiffOf(r))]

\* run(diff_text): initial_state is built and the graph sends the text to
\* every agent.  analyze_diff(diff_text): the in-progress result is stored
\* under a new id and the security agent is started.
RunStart(r) ==
    /\ runs[r].pc = "idle"
    /\ \E t \in LastCreated(store)..MaxClock :
          LET id == IF path = "http" THEN NewId(store) ELSE 0
          IN  /\ runs' = [runs EXCEPT
                     ![r].pc = "awaiting",
                     ![r].overlapped = \E q \in RunIds : runs[q].pc = "awaiting",
                     ![r].analysis_id = id]
              /\ store' = IF path = "http"
                          THEN Append(store, StoreEntry(id, t, InProgressResult))
                          ELSE store
    /\ UNCHANGED <<path, phase, now, wpc, reply, task_result, agent_results, final_result,
                   agg_count, ws_pc, ws_i, sink, client, parse_input, parsed,
                   gateway, posts, events, request, diff_text, http_pc, served,
                   active_connections, endpoint>>

\* _agent_worker_node of one call: analyze returns and the node's write is
\* kept with the task.
RunWorkerNode(r, a) ==
    /\ path = "coordinator"
    /\ runs[r].pc = "awaiting"
    /\ runs[r].task_result[a] = None
    /\ runs' = Write(runs, r, a, AnalyzeCall(a, ReplyTo(runs[r].diff, a), 0).value)
    /\ UNCHANGED <<path, phase, now, wpc, reply, task_result, agent_results, final_result,
                   agg_count, ws_pc, ws_i, sink, client, parse_input, parsed,
                   gateway, posts, events, request, diff_text, http_pc, store, served,
                   active_connections, endpoint>>

\* The step of one call's graph ends, its writes are applied, and
\* _aggregate_node builds the report run() returns.
RunAggregate(r) ==
    /\ path = "coordinator"
    /\ runs[r].pc = "awaiting"
    /\ \A a \in Workers(path) : runs[r].task_result[a] # None
    /\ LET results == ApplyWrites(runs[r].agent_results, runs[r].task_result)
       IN  runs' = [runs EXCEPT ![r].pc = "done",
                                ![r].agent_results = results,
                                ![r].final_result = Some(AggregateNode(results))]
    /\ UNCHANGED <<path, phase, now, wpc, reply, task_result, agent_results, final_result,
                   agg_count, ws_pc, ws_i, sink, client, parse_input, parsed,
                   gateway, posts, events, request, diff_text, http_pc, store, served,
                   active_connections, endpoint>>

\* analyze_diff from the return of analyze to its own return: the result is
\* combined and stored under the call's id.
RunCombine(r) ==
    /\ path = "http"
    /\ runs[r].pc = "awaiting"
    /\ \E overhead \in 0..MaxOverhead :
          LET written == Write(runs, r, "security",
                               AnalyzeCall("security",
                                           ReplyTo(runs[r].diff, "security"), 0).value)
              results == written[r].task_result["security"]
              result == HttpCombine(results, overhead)
          IN  /\ runs' = [written EXCEPT ![r].pc = "done",
                                         ![r].agent_results = results,
                                         ![r].final_result = Some(result)]
              /\ store' = StoreUpdate(store, runs[r].analysis_id, result)
    /\ UNCHANGED <<path, phase, now, wpc, reply, task_result, agent_results, final_result,
                   agg_count, ws_pc, ws_i, sink, client, parse_input, parsed,
                   gateway, posts, events, request, diff_text, http_pc, served,
                   active_connections, endpoint>>

OverlapNext ==
    \/ \E r \in RunIds : RunStart(r)
    \/ \E r \in RunIds, a \in AgentType : RunWorkerNode(r, a)
    \/ \E r \in RunIds : RunAggregate(r)
    \/ \E r \in RunIds : RunCombine(r)

OverlapSpec == OverlapInit /\ [][OverlapNext]_vars

-----------------------------------------------------------------------------
(* analysis_service.py: one request on a service that served others before *)

\* The report an earlier request left in the store.
EarlierReport == HttpCombine(<<AnalyzeCall("security", "no_findings", 0).value>>, 0)

\* The stores earlier requests can have left: at most MaxStored completed
\* reports, stamped in the order they were stored.
EarlierStores ==
    {<<>>}
    \cup UNION {{[i \in 1..n |-> StoreEntry(i, stamps[i], EarlierReport)] :
                    stamps \in {f \in [1..n -> 0..MaxClock] :
                                   \A i \in 1..(n - 1) : f[i] <= f[i + 1]}} :
                n \in 1..MaxStored}

ServiceInit ==
    /\ path = "http"
    /\ phase = "Idle"
    /\ now = 0
    /\ wpc = [a \in AgentType |-> "idle"]
    /\ reply = [a \in AgentType |-> "none"]
    /\ task_result = [a \in AgentType |-> None]
    /\ agent_results = <<>>
    /\ final_result = None
    /\ agg_count = 0
    /\ ws_pc = "idle"
    /\ ws_i = 1
    /\ sink = "ok"
    /\ client = "none"
    /\ parse_input = JNull
    /\ parsed = None
    /\ http_pc = "analyze_diff"
    /\ gateway = None
    /\ posts = [a \in AgentType |-> 0]
    /\ events = NoEvents
    /\ request = DiffRequest
    /\ diff_text = "text"
    /\ store \in EarlierStores
    /\ served = None
    /\ NoSessions
    /\ NoRuns

ServiceNext ==
    \/ Tick
    \/ HttpAnalyzeDiff
    \/ HttpCombineStep
    \/ \E id \in 1..(MaxStored + 2) : GetResult(id)
    \/ \E limit \in (0 - 1)..(MaxStored + 2) : GetHistory(limit)

ServiceSpec == ServiceInit /\ [][ServiceNext]_vars

-----------------------------------------------------------------------------
(* ollama_client.py: one call of a method of OllamaClient *)

Models == {ModelOf(a) : a \in AgentType}

\* The calls: the method, its model argument and what the backend does.
GatewayCalls ==
    {[op |-> op, model |-> m, reply |-> r, out |-> None] :
        op \in {"generate", "generate_json"}, m \in Models, r \in GatewayReplyNames}
    \cup {[op |-> "check_connection", model |-> "", reply |-> r, out |-> None] :
             r \in {"connect_error", "timeout", "status_500", "no_findings"}}

GatewayInit ==
    /\ path = "gateway"
    /\ phase = "Idle"
    /\ now = 0
    /\ wpc = [a \in AgentType |-> "idle"]
    /\ reply = [a \in AgentType |-> "none"]
    /\ task_result = [a \in AgentType |-> None]
    /\ agent_results = <<>>
    /\ final_result = None
    /\ agg_count = 0
    /\ ws_pc = "idle"
    /\ ws_i = 1
    /\ sink = "ok"
    /\ client = "none"
    /\ parse_input = JNull
    /\ parsed = None
    /\ http_pc = "idle"
    /\ gateway \in {Some(c) : c \in GatewayCalls}
    /\ posts = [a \in AgentType |-> 0]
    /\ events = NoEvents
    /\ request = DiffRequest
    /\ diff_text = "text"
    /\ store = <<>>
    /\ served = None
    /\ NoSessions
    /\ NoRuns

\* The call runs to its return or to the exception that leaves it.
GatewayReturns(op, out) ==
    /\ path = "gateway"
    /\ gateway[1].op = op
    /\ gateway[1].out = None
    /\ gateway' = Some([gateway[1] EXCEPT !.out = Some(out)])
    /\ UNCHANGED <<path, phase, now, wpc, reply, task_result, agent_results,
                   final_result, agg_count, ws_pc, ws_i, sink, client, parse_input, parsed,
                   posts, events, request, diff_text, http_pc, store, served,
                   active_connections, endpoint, runs>>

GenerateCall ==
    GatewayReturns("generate", Generate(gateway[1].model, ReplyOf(gateway[1].reply)))

GenerateJsonCall ==
    GatewayReturns("generate_json", GenerateJson(gateway[1].model, ReplyOf(gateway[1].reply)))

CheckConnectionCall ==
    GatewayReturns("check_connection", CheckConnection(ReplyOf(gateway[1].reply)))

GatewayNext == GenerateCall \/ GenerateJsonCall \/ CheckConnectionCall

GatewaySpec == GatewayInit /\ [][GatewayNext]_vars

-----------------------------------------------------------------------------
(* Properties *)

Report == final_result[1]
Results == Report.agent_results
Concurrent == path \in {"coordinator", "websocket"}

\* C1: in every report of a run over the five workers, the results are in
\* the order the workers were dispatched (the registry order), whatever the
\* order in which the workers finished.
ResultsInDispatchOrder ==
    (Concurrent /\ final_result # None) =>
        [i \in 1..Len(Results) |-> Results[i].agent] = AgentNames

\* C1 witness: a report in which the third worker finished (took less time)
\* before the first.
LaterWorkerFinishedFirst ==
    /\ path = "coordinator"
    /\ phase = "Done"
    /\ Results[3].execution_time < Results[1].execution_time

\* C2: every report of a run holds exactly one result per registered worker,
\* and it is the result that worker's task returned: none lost, duplicated or
\* overwritten.
OneResultPerWorker ==
    (Concurrent /\ final_result # None) =>
        /\ Len(Results) = NumAgents
        /\ \A a \in AgentType :
              /\ Cardinality({i \in 1..Len(Results) : Results[i].agent = a}) = 1
              /\ \E i \in 1..Len(Results) : Some(Results[i]) = task_result[a]

\* C2 witness: a report that holds failed and completed results.
ReportWithMixedResults ==
    /\ path = "coordinator"
    /\ final_result # None
    /\ Results[1].status = "failed"
    /\ Results[2].status = "completed"
    /\ Results[5].status = "failed"

\* Whether the reply makes the gateway call or the normalization fail.
CallFails(a, r) ==
    LET result == GenerateJson(ModelOf(a), ReplyOf(r))
    IN  result.raised \/ ParseResponse(a, result.value).raised

\* C3: no exception ever leaves analyze; every call returns a result, and a
\* call whose gateway call or normalization failed returns a failed one.
AnalyzeNeverRaises ==
    \A a \in AgentType :
        /\ wpc[a] # "crashed"
        /\ reply[a] # "none" =>
              /\ task_result[a] # None
              /\ task_result[a][1].status \in {"completed", "failed"}
              /\ CallFails(a, reply[a]) => task_result[a][1].status = "failed"

\* C3 witness: analyze has returned failed results for a gateway failure
\* and for a parsed value that is not a record.
FailuresBecameResults ==
    /\ path = "coordinator"
    /\ reply["security"] = "connect_error"
    /\ task_result["security"] # None
    /\ reply["testing"] = "not_a_dict"
    /\ task_result["testing"] # None

\* C4 (as claimed): a finished run has a completed report with one result
\* per worker, in which exactly the workers whose gateway call failed are
\* failed, with an error, and every other worker is completed with the
\* findings normalised from its reply.
OnlyGatewayFailuresFail ==
    (path = "coordinator" /\ phase = "Done") =>
        /\ Report.status = "completed"
        /\ Len(Results) = NumAgents
        /\ \A i \in 1..NumAgents :
              LET a == AgentNames[i]
                  call == GenerateJson(ModelOf(a), ReplyOf(reply[a]))
              IN  IF call.raised
                  THEN Results[i].status = "failed" /\ Results[i].error # None
                  ELSE /\ Results[i].status = "completed"
                       /\ Results[i].findings = ParseResponse(a, call.value).value

\* The (result, finding) positions of a report whose finding has the severity.
FindingsOf(results, severities) ==
    UNION {{<<i, j>> : j \in {k \in 1..Len(results[i].findings) :
                                 results[i].findings[k].severity \in severities}} :
           i \in 1..Len(results)}

\* C5: in every report, total_findings is the number of findings of its
\* results and each severity count is the number of those of that severity.
CountsMatchFindings ==
    final_result # None =>
        /\ Report.total_findings = Cardinality(FindingsOf(Results, Severity))
        /\ Report.critical_count = Cardinality(FindingsOf(Results, {"critical"}))
        /\ Report.high_count = Cardinality(FindingsOf(Results, {"high"}))
        /\ Report.medium_count = Cardinality(FindingsOf(Results, {"medium"}))
        /\ Report.low_count = Cardinality(FindingsOf(Results, {"low"}))

\* C5 witness: a report over several results with findings.
ReportWithFindings ==
    /\ path = "websocket"
    /\ final_result # None
    /\ Report.total_findings = 6
    /\ Report.critical_count = 2
    /\ Report.low_count = 0

\* C6 (as claimed): in every report with at least one result,
\* total_execution_time is the largest execution_time of its results.
TotalTimeIsMax ==
    (final_result # None /\ Len(Results) >= 1) =>
        /\ \E i \in 1..Len(Results) :
              Report.total_execution_time = Results[i].execution_time
        /\ \A i \in 1..Len(Results) :
              Report.total_execution_time >= Results[i].execution_time

\* C7: every result analyze returned is failed exactly when its findings
\* are empty and its error is set; a completed result has no error.
FailureShape ==
    \A a \in AgentType :
        task_result[a] # None =>
            LET r == task_result[a][1]
            IN  /\ r.status = "failed" <=> (r.findings = <<>> /\ r.error # None)
                /\ r.status = "completed" => r.error = None
                /\ r.status = "failed" => r.findings = <<>>

\* C7 witness: a failed result (a parsed value that is not a record) beside
\* a completed one.
FailedBesideCompleted ==
    /\ task_result["security"] # None
    /\ reply["security"] = "not_a_dict"
    /\ task_result["security"][1].status = "failed"
    /\ task_result["performance"] # None
    /\ task_result["performance"][1].status = "completed"

\* The coordinator's states in their order; a session can also fail.
PhaseOrder == <<"Idle", "Dispatching", "AwaitingAll", "Aggregating", "Done">>

\* C8: a run passes through Idle, Dispatching, AwaitingAll, Aggregating,
\* Done in this order without skipping or returning; the report is built
\* once, in the step from Aggregating to Done, and only when every
\* dispatched worker has returned its result.
AggregateOnceAfterAll ==
    [][Concurrent =>
        /\ phase' # phase =>
              \/ \E i \in 1..4 : phase = PhaseOrder[i] /\ phase' = PhaseOrder[i + 1]
              \/ phase' = "Failed" /\ phase \notin {"Done", "Failed"}
        /\ agg_count' # agg_count =>
              /\ agg_count = 0 /\ agg_count' = 1
              /\ phase = "Aggregating" /\ phase' = "Done"
              /\ \A a \in AgentType : wpc[a] = "done" /\ task_result[a] # None
              /\ Len(agent_results) = NumAgents
        /\ final_result' # final_result => agg_count' # agg_count
        /\ phase' = "Done" => agg_count' = 1 /\ final_result' # None]_vars

\* C8 witness: a run that is Done with its report built.
RunDone ==
    /\ path = "websocket"
    /\ phase = "Done"
    /\ agg_count = 1
    /\ Results[4].status = "failed"

\* C9: with every gateway call returning or failing, every run of the
\* orchestrator reaches Done with its report.
RunTerminates == <>(phase = "Done" /\ final_result # None)

\* C9 witness: a run is Done after every worker failed.
DoneAfterAllFailed ==
    /\ path = "coordinator"
    /\ phase = "Done"
    /\ \A i \in 1..NumAgents : Results[i].status = "failed"

\* C10 (as claimed): whatever the socket does, a session that was given
\* valid input ends with its report built.
ReportDespiteSink ==
    (path = "websocket" /\ ws_pc = "exit") => final_result # None

\* C11 (as claimed): a session that acquired its gateway client has released
\* it when handle_analysis is left, on every exit path.
HandleReleasedOnExit ==
    (path = "websocket" /\ ws_pc = "exit" /\ client # "none") => client = "closed"

\* C12: a dispatched worker stops running only by its own step, the return
\* of its own analyze call; no step of the handler, of the socket or of
\* another worker ends it.
WorkersRunToCompletion ==
    [][\A a \in AgentType :
          (wpc[a] = "running" /\ wpc'[a] # "running") =>
              /\ wpc'[a] \in {"done", "raised", "crashed"}
              /\ \/ AnalyzeReturn(a)
                 \/ AgentWorkerNode(a)
                 \/ RunAndReport(a)
                 \/ HttpCombineStep]_vars

\* C12 witness: the send of one worker's event raised and the handler was
\* left while another worker was in flight; that worker finished afterwards.
WorkerOutlivesHandler ==
    /\ path = "websocket"
    /\ ws_pc = "exit"
    /\ wpc["security"] = "raised"
    /\ wpc["standards"] = "done"
    /\ task_result["standards"] = None

\* The fields of a result that do not depend on the clock.
Shape(r) ==
    [status |-> r.status, findings |-> r.findings, error |-> r.error,
     model_used |-> r.model_used]

\* C13: the status, findings, error and model of a worker's result, as the
\* task returned it and as the report holds it, are those analyze yields for
\* that worker's own backend reply, whatever the other workers got and
\* however long they took.
OwnResponseOnly ==
    /\ \A a \in AgentType :
          task_result[a] # None =>
              Shape(task_result[a][1]) = Shape(AnalyzeCall(a, reply[a], 0).value)
    /\ (Concurrent /\ final_result # None) =>
          \A i \in 1..Len(Results) :
              Shape(Results[i]) =
                  Shape(AnalyzeCall(Results[i].agent, reply[Results[i].agent], 0).value)

\* C13 witness: a report in which a worker completed with its findings
\* beside workers whose calls failed, after more time.
OwnFindingsBesideFailures ==
    /\ path = "coordinator"
    /\ phase = "Done"
    /\ reply["security"] = "findings"
    /\ reply["performance"] = "connect_error"
    /\ reply["standards"] = "not_a_dict"
    /\ Len(Results[1].findings) = 3
    /\ Results[2].execution_time > Results[1].execution_time

\* C14: every result carries its worker's identity and configured model,
\* and every finding in it carries that worker's identity.
IdentityAndModel ==
    \A a \in AgentType :
        task_result[a] # None =>
            LET r == task_result[a][1]
            IN  /\ r.agent = a
                /\ r.model_used = ModelOf(a)
                /\ \A j \in 1..Len(r.findings) : r.findings[j].agent = a

\* C14 witness: a failed result and a completed one with findings, of
\* workers bound to different models.
FailedAndCompletedCarryIdentity ==
    /\ task_result["security"] # None
    /\ task_result["security"][1].status = "failed"
    /\ task_result["standards"] # None
    /\ Len(task_result["standards"][1].findings) = 3

-----------------------------------------------------------------------------
(* Properties of parse_response, under ParseSpec *)

\* The parsed value holds a list under "findings".
HasFindingsList ==
    /\ parse_input.t = "dict"
    /\ "findings" \in DOMAIN parse_input.v
    /\ parse_input.v.findings.t = "list"

FindingsList == parse_input.v.findings.v

\* The parsed value has no "findings" key and holds a list under "issues".
HasIssuesListOnly ==
    /\ parse_input.t = "dict"
    /\ "findings" \notin DOMAIN parse_input.v
    /\ "issues" \in DOMAIN parse_input.v
    /\ parse_input.v.issues.t = "list"

StrOrMissing(item, key) == key \in DOMAIN item.v => item.v[key].t = "str"

\* The suggestion of a record: its "suggestion" when that is there and not
\* empty, else its "fix"; JNull when it has neither.
SuggestionOf(item) == Or(Get(item.v, "suggestion", JNull), Get(item.v, "fix", JNull))

\* The confidence of a record, read as a number (hundredths); None when it
\* does not read as one.
ConfidenceOf(item) == Float(Get(item.v, "confidence", JNum(80)))

\* A valid record element: a record whose severity and title are strings
\* where present, whose description and suggestion are strings or lists where
\* present, and whose confidence, where present, reads as a number within
\* [0,1].
WellFormed(item) ==
    /\ item.t = "dict"
    /\ StrOrMissing(item, "severity")
    /\ StrOrMissing(item, "title")
    /\ "description" \in DOMAIN item.v => item.v.description.t \in {"str", "list"}
    /\ SuggestionOf(item).t \in {"null", "str", "list"}
    /\ ConfidenceOf(item) # None
    /\ ConfidenceOf(item)[1] >= 0
    /\ ConfidenceOf(item)[1] <= 100

\* C15: when the parsed object has no "findings" key but an "issues" list,
\* the Findings are exactly those the same list gives under "findings".
IssuesLikeFindings ==
    (parsed # None /\ HasIssuesListOnly) =>
        parsed[1].out =
            ParseResponse(parsed[1].agent, JDict([findings |-> JList(parse_input.v.issues.v)]))

\* An "issues" list was parsed and gave Findings.
IssuesGaveFindings ==
    /\ parsed # None
    /\ HasIssuesListOnly
    /\ ~parsed[1].out.raised
    /\ Len(parsed[1].out.value) = MaxItems

\* C16: for any findings list the elements that are not records are skipped:
\* the worker result is completed and holds as many Findings as the list has
\* valid record elements.
NonRecordsSkipped ==
    (parsed # None /\ HasFindingsList) =>
        /\ parsed[1].result.status = "completed"
        /\ Len(parsed[1].result.findings) =
               Cardinality({i \in DOMAIN FindingsList : WellFormed(FindingsList[i])})

\* A list with a non-record between two valid records gave two Findings.
NonRecordBetweenRecords ==
    /\ parsed # None
    /\ HasFindingsList
    /\ Len(FindingsList) = 3
    /\ WellFormed(FindingsList[1])
    /\ FindingsList[2].t # "dict"
    /\ WellFormed(FindingsList[3])
    /\ Len(parsed[1].result.findings) = 2
    /\ parsed[1].result.status = "completed"

\* The severity the specification gives a record: its value lower-cased and
\* trimmed when that is critical, high, medium or low; low for info; medium
\* for any other value and for a missing one.
ClaimedSeverity(item) ==
    IF "severity" \notin DOMAIN item.v \/ item.v.severity.t # "str" THEN "medium"
    ELSE LET s == Strip(Lower(item.v.severity.v))
         IN  CASE s = <<"c", "r", "i", "t", "i", "c", "a", "l">> -> "critical"
               [] s = <<"h", "i", "g", "h">> -> "high"
               [] s = <<"m", "e", "d", "i", "u", "m">> -> "medium"
               [] s = <<"l", "o", "w">> -> "low"
               [] s = <<"i", "n", "f", "o">> -> "low"
               [] OTHER -> "medium"

\* A record whose fields other than severity are valid.
ValidButSeverity(item) ==
    /\ item.t = "dict"
    /\ StrOrMissing(item, "title")
    /\ StrOrMissing(item, "description")
    /\ ConfidenceOf(item) # None
    /\ ConfidenceOf(item)[1] >= 0
    /\ ConfidenceOf(item)[1] <= 100

\* C17: every record element yields a Finding whose severity is decided
\* without regard to case and surrounding whitespace: critical, high, medium
\* and low map to themselves, info to low, and any other severity value or a
\* missing one to medium.
SeverityAlwaysMapped ==
    (parsed # None /\ HasFindingsList
        /\ \A i \in DOMAIN FindingsList : ValidButSeverity(FindingsList[i])) =>
        /\ ~parsed[1].out.raised
        /\ Len(parsed[1].out.value) = Len(FindingsList)
        /\ \A i \in DOMAIN FindingsList :
               parsed[1].out.value[i].severity = ClaimedSeverity(FindingsList[i])

Clamp(c) == IF c < 0 THEN 0 ELSE IF c > 100 THEN 100 ELSE c

\* A record that is valid but for the range of its confidence.
ValidButRange(item) ==
    /\ item.t = "dict"
    /\ StrOrMissing(item, "severity")
    /\ StrOrMissing(item, "title")
    /\ StrOrMissing(item, "description")
    /\ ConfidenceOf(item) # None

\* C18: every Finding has a confidence within [0,1], and a record whose
\* confidence lies outside [0,1] is kept, with the confidence clamped to the
\* nearest bound.
ConfidenceClamped ==
    (parsed # None /\ HasFindingsList
        /\ \A i \in DOMAIN FindingsList : ValidButRange(FindingsList[i])) =>
        /\ ~parsed[1].out.raised
        /\ Len(parsed[1].out.value) = Len(FindingsList)
        /\ \A i \in DOMAIN FindingsList :
               parsed[1].out.value[i].confidence = Clamp(ConfidenceOf(FindingsList[i])[1])

\* C19: a record element lacking title, description or confidence still
\* yields a Finding, with "Untitled Finding", "No description provided" and
\* 0.8 in the place of the missing field.
DefaultsSubstituted ==
    (parsed # None /\ HasFindingsList
        /\ \A i \in DOMAIN FindingsList : WellFormed(FindingsList[i])) =>
        /\ ~parsed[1].out.raised
        /\ Len(parsed[1].out.value) = Len(FindingsList)
        /\ \A i \in DOMAIN FindingsList :
               LET item == FindingsList[i]
                   finding == parsed[1].out.value[i]
               IN  /\ "title" \notin DOMAIN item.v =>
                           finding.title = <<"Untitled Finding">>
                   /\ "description" \notin DOMAIN item.v =>
                           finding.description = <<"No description provided">>
                   /\ "confidence" \notin DOMAIN item.v => finding.confidence = 80

\* A record with none of the three fields gave a Finding holding the three
\* defaults, beside a record that has them all.
FindingWithAllDefaults ==
    /\ parsed # None
    /\ HasFindingsList
    /\ Len(FindingsList) = 2
    /\ WellFormed(FindingsList[1])
    /\ DOMAIN FindingsList[1].v = {"severity"}
    /\ WellFormed(FindingsList[2])
    /\ {"title", "description", "confidence"} \subseteq DOMAIN FindingsList[2].v
    /\ ~parsed[1].out.raised
    /\ Len(parsed[1].out.value) = 2
    /\ parsed[1].out.value[1].title = <<"Untitled Finding">>
    /\ parsed[1].out.value[1].description = <<"No description provided">>
    /\ parsed[1].out.value[1].confidence = 80

\* A record element whose construction of the Finding raises.
RaisesInTry(item) == item.t = "dict" /\ ~WellFormed(item)

\* C20: a record element that raises is skipped and the others are still
\* normalised: the worker result is completed and holds the Findings of the
\* list without the elements that raise.
BadElementsSkipped ==
    (parsed # None /\ HasFindingsList
        /\ \E i \in DOMAIN FindingsList : RaisesInTry(FindingsList[i])) =>
        LET others == SelectSeq(FindingsList, LAMBDA item : ~RaisesInTry(item))
        IN  /\ parsed[1].result.status = "completed"
            /\ parsed[1].result.error = None
            /\ parsed[1].result.findings =
                   ParseResponse(parsed[1].agent, JDict([findings |-> JList(others)])).value

\* A record whose confidence is no number, between two valid records, left
\* a completed result with the two other Findings.
BadRecordBetweenRecords ==
    /\ parsed # None
    /\ HasFindingsList
    /\ Len(FindingsList) = 3
    /\ WellFormed(FindingsList[1])
    /\ FindingsList[2].t = "dict"
    /\ ConfidenceOf(FindingsList[2]) = None
    /\ WellFormed(FindingsList[3])
    /\ parsed[1].result.status = "completed"
    /\ Len(parsed[1].result.findings) = 2

\* A list of strings.
ListOfStrings(x) == x.t = "list" /\ \A k \in DOMAIN x.v : x.v[k].t = "str"

\* The given strings with sep between each two.
RECURSIVE Interleaved(_, _)
Interleaved(sep, strings) ==
    IF strings = <<>> THEN <<>>
    ELSE IF Len(strings) = 1 THEN strings[1].v
    ELSE Interleaved(sep, SubSeq(strings, 1, Len(strings) - 1)) \o sep \o strings[Len(strings)].v

\* C21: a record element whose suggestion (or fix) is a list of strings
\* yields a Finding whose suggestion is the fragments joined by "; "; one
\* whose description is a list of strings yields a Finding whose description
\* is the fragments joined by a space; the element is not skipped.
ListsFlattened ==
    (parsed # None /\ HasFindingsList
        /\ \A i \in DOMAIN FindingsList : WellFormed(FindingsList[i])) =>
        /\ ~parsed[1].out.raised
        /\ Len(parsed[1].out.value) = Len(FindingsList)
        /\ \A i \in DOMAIN FindingsList :
               LET item == FindingsList[i]
                   finding == parsed[1].out.value[i]
               IN  /\ ("description" \in DOMAIN item.v /\ ListOfStrings(item.v.description)) =>
                           finding.description = Interleaved(<<" ">>, item.v.description.v)
                   /\ ListOfStrings(SuggestionOf(item)) =>
                           finding.suggestion =
                               Some(Interleaved(<<";", " ">>, SuggestionOf(item).v))

\* A record whose description and suggestion are lists, and one whose fix is
\* a list, gave Findings with the joined texts.
ListsGaveJoinedTexts ==
    /\ parsed # None
    /\ HasFindingsList
    /\ Len(FindingsList) = 2
    /\ \A i \in 1..2 : WellFormed(FindingsList[i])
    /\ ~parsed[1].out.raised
    /\ Len(parsed[1].out.value) = 2
    /\ parsed[1].out.value[1].description = <<"a", " ", "b">>
    /\ parsed[1].out.value[1].suggestion = Some(<<"x", ";", " ", "y", ";", " ", "z">>)
    /\ "fix" \in DOMAIN FindingsList[2].v
    /\ parsed[1].out.value[2].suggestion = Some(<<"x", ";", " ", "y">>)

-----------------------------------------------------------------------------
(* Properties of the gateway, under GatewaySpec *)

\* The call of generate or generate_json has ended.
GenerateEnded ==
    /\ gateway # None
    /\ gateway[1].op \in {"generate", "generate_json"}
    /\ gateway[1].out # None

\* C22: when the backend is unreachable, generate and generate_json fail
\* with ConnectionError: the connect error of the transport does not leave
\* the gateway as it is, and the call does not return.
ConnectFailureTranslated ==
    (GenerateEnded /\ gateway[1].reply = "connect_error") =>
        /\ gateway[1].out[1].raised
        /\ gateway[1].out[1].exc.cls = "ConnectionError"

\* C23: a generate call whose transport times out fails with TimeoutError,
\* and one answered with HTTP 404 fails with the model-not-found error; the
\* call returns no result.
TimeoutAndNotFoundTranslated ==
    GenerateEnded =>
        /\ gateway[1].reply = "timeout" =>
               /\ gateway[1].out[1].raised
               /\ gateway[1].out[1].exc.cls = "TimeoutError"
        /\ gateway[1].reply = "status_404" =>
               /\ gateway[1].out[1].raised
               /\ gateway[1].out[1].exc = Exc("ValueError", "Model not found")

\* A generate_json call timed out and failed with TimeoutError.
TimedOutCallFailed ==
    /\ GenerateEnded
    /\ gateway[1].op = "generate_json"
    /\ gateway[1].reply = "timeout"
    /\ gateway[1].out[1].raised
    /\ gateway[1].out[1].exc.cls = "TimeoutError"

\* C24: generate_json returns only a JSON object; for any other text of the
\* backend it fails with the invalid-JSON ValueError.
StructuredOnlyObjects ==
    (GenerateEnded /\ gateway[1].op = "generate_json"
        /\ ~Generate(gateway[1].model, ReplyOf(gateway[1].reply)).raised) =>
        IF ReplyOf(gateway[1].reply).wellformed /\ ReplyOf(gateway[1].reply).value.t = "dict"
        THEN gateway[1].out[1] = Returned(ReplyOf(gateway[1].reply).value)
        ELSE /\ gateway[1].out[1].raised
             /\ gateway[1].out[1].exc = Exc("ValueError", "Model returned invalid JSON")

-----------------------------------------------------------------------------
(* Properties of the store, under ServiceSpec *)

\* C27: every report get_result or get_history gives, also while an
\* analysis is in flight, is fully populated: its status is completed.
StoreExposesOnlyCompleted ==
    served # None =>
        \A i \in DOMAIN served[1].value : served[1].value[i].result.status = "completed"

\* What a call of get_result or get_history answered in this step.
Answered(op) == served' # served /\ served'[1].op = op

-----------------------------------------------------------------------------
(* Properties of a run's backend calls and of the session's events *)

\* C30: in a run each worker posts to the backend at most once, whatever the
\* reply; a worker is started only from idle and never returns to idle, so
\* one that failed or crashed is not dispatched again.
AtMostOnePost ==
    [][\A a \in AgentType :
          /\ posts'[a] <= 1
          /\ posts'[a] >= posts[a]
          /\ (posts'[a] # posts[a]) => (wpc[a] = "running" /\ wpc'[a] # "running")
          /\ (wpc'[a] = "running" /\ wpc[a] # "running") => wpc[a] = "idle"
          /\ (wpc[a] # "idle") => wpc'[a] # "idle"]_vars

\* C30 witness: a run of the orchestrator is Done with a worker whose call
\* found no backend and failed, and every worker posted once.
FailedWorkerPostedOnce ==
    /\ path = "coordinator"
    /\ phase = "Done"
    /\ reply["security"] = "connect_error"
    /\ Results[1].status = "failed"
    /\ \A a \in AgentType : posts[a] = 1

\* What an agent_completed event says of a result: its number of findings,
\* its execution time and its status.
Carries(data, result) ==
    /\ data # None
    /\ data[1].findings_count = Len(result.findings)
    /\ data[1].execution_time = result.execution_time
    /\ data[1].status = result.status

\* C26: in a session an agent_completed event is sent in the step in which
\* its worker's analyze returns, one event in a step and for that worker
\* only, so the events follow the order of completion; its data are the
\* number of findings, the execution time and the status of the result the
\* task returns, and the report built afterwards holds for each worker a
\* result with the data its event carried.
CompletedEventMatchesResult ==
    [][/\ \A a \in AgentType :
             /\ (events'.agent_completed[a] # events.agent_completed[a]) =>
                    /\ wpc[a] = "running" /\ wpc'[a] = "done"
                    /\ task_result[a] = None /\ task_result'[a] # None
                    /\ Carries(events'.completed_data[a], task_result'[a][1])
                    /\ \A b \in AgentType \ {a} :
                           /\ events'.agent_completed[b] = events.agent_completed[b]
                           /\ wpc'[b] = wpc[b]
             /\ (path = "websocket" /\ ws_pc # "exit" /\ wpc[a] = "running"
                     /\ wpc'[a] = "done") =>
                    events'.agent_completed[a] = events.agent_completed[a] + 1
             /\ (events'.completed_data[a] # events.completed_data[a]) =>
                    events'.agent_completed[a] # events.agent_completed[a]
       /\ (path = "websocket" /\ final_result = None /\ final_result' # None) =>
             \A i \in 1..NumAgents :
                 Carries(events.completed_data[final_result'[1].agent_results[i].agent],
                         final_result'[1].agent_results[i])
      ]_vars

\* C26 witness: a session ended with its report, in which one worker failed
\* and another found something, and the event of each carried that.
EventsCarriedBothOutcomes ==
    /\ path = "websocket"
    /\ ws_pc = "exit"
    /\ final_result # None
    /\ events.analysis_completed = 1
    /\ \E i, j \in 1..NumAgents :
          /\ Results[i].status = "failed"
          /\ events.completed_data[Results[i].agent][1].status = "failed"
          /\ events.completed_data[Results[i].agent][1].findings_count = 0
          /\ Results[j].status = "completed"
          /\ events.completed_data[Results[j].agent][1].status = "completed"
          /\ events.completed_data[Results[j].agent][1].findings_count > 0

-----------------------------------------------------------------------------
(* Properties of a session or a request from its input on, under SessionSpec *)

\* The change text the workers would be given is there: the diff_text of the
\* request, or with a pr_url the raw_diff the fetch returns.
NonEmptyInput ==
    IF Missing(request.pr_url) THEN ~Missing(request.diff_text)
    ELSE request.fetched = "text"

\* C29: a worker is started, and the backend is posted to, only with a change
\* text that is there; a session whose change text is absent or empty, as
\* given or as fetched, has ended with an error event and without the
\* analysis_started event, and such a request has ended with status 400 or
\* 501 and nothing stored, every worker still idle.
NoWorkerWithoutChangeText ==
    /\ \A a \in AgentType : (wpc[a] # "idle" \/ posts[a] > 0) => diff_text = "text"
    /\ (path = "websocket" /\ ws_pc \notin {"receive", "fetch"} /\ Missing(diff_text)) =>
           /\ ws_pc = "exit"
           /\ events.error = 1
           /\ events.analysis_started = 0
           /\ events.agent_started = 0
           /\ \A a \in AgentType : wpc[a] = "idle"
    /\ (path = "http" /\ http_pc # "analyze_pr" /\ Missing(diff_text)) =>
           /\ http_pc \in {"status_400", "status_501"}
           /\ store = <<>>
           /\ \A a \in AgentType : wpc[a] = "idle"

\* C29 witness: a session given a pr_url whose fetched diff is empty has
\* ended with the error event after fetch_completed, no worker started.
EmptyFetchedDiffRejected ==
    /\ path = "websocket"
    /\ request.pr_url = "url"
    /\ request.diff_text = "text"
    /\ request.fetched = "empty"
    /\ diff_text = "empty"
    /\ ws_pc = "exit"
    /\ events.fetch_completed = 1
    /\ events.error = 1
    /\ \A a \in AgentType : wpc[a] = "idle" /\ posts[a] = 0

\* The events of the analysis are in order: analysis_started once and before
\* any agent_started; the five agent_started before any worker runs and
\* before any agent_completed; at most one agent_completed for a worker; one
\* analysis_completed, after the five agent_completed; no error event.
AnalysisEventsOrdered(sent) ==
    /\ sent.analysis_started <= 1
    /\ sent.agent_started <= NumAgents
    /\ sent.agent_started > 0 => sent.analysis_started = 1
    /\ \A a \in AgentType :
          /\ sent.agent_completed[a] <= 1
          /\ sent.agent_completed[a] = 1 => sent.agent_started = NumAgents
    /\ sent.analysis_completed <= 1
    /\ sent.analysis_completed = 1 => \A a \in AgentType : sent.agent_completed[a] = 1
    /\ sent.analysis_started = 1 => sent.error = 0

\* C25 (as claimed): in a session with input that is not empty, whatever has
\* been sent, analysis_started was sent before it.
AnalysisStartedFirst ==
    (path = "websocket" /\ NonEmptyInput /\ events # NoEvents) =>
        events.analysis_started = 1

\* C25 (amended): in a session with input that is not empty and a working
\* connection, analysis_started is the first event when the session is given
\* no pr_url, and follows fetch_started and fetch_completed, one of each,
\* when it is; the events of the analysis are in order, every worker runs
\* only after the five agent_started, a session that has ended has sent one
\* agent_completed for each worker and analysis_completed, and nothing is
\* sent after analysis_completed.
EventStreamOrdered ==
    [][(path = "websocket" /\ NonEmptyInput) =>
          /\ AnalysisEventsOrdered(events')
          /\ \A a \in AgentType : wpc'[a] # "idle" => events'.agent_started = NumAgents
          /\ IF Missing(request.pr_url)
             THEN /\ events'.fetch_started = 0 /\ events'.fetch_completed = 0
                  /\ events' # NoEvents => events'.analysis_started = 1
             ELSE /\ events'.fetch_started <= 1 /\ events'.fetch_completed <= 1
                  /\ events'.fetch_completed = 1 => events'.fetch_started = 1
                  /\ events'.analysis_started = 1 => events'.fetch_completed = 1
          /\ ws_pc' = "exit" =>
                 /\ events'.analysis_completed = 1
                 /\ \A a \in AgentType : events'.agent_completed[a] = 1
          /\ events.analysis_completed = 1 => events' = events
      ]_vars

\* C25 witness: a session given a pr_url has ended after the two fetch
\* events, analysis_started, five agent_started, an agent_completed for each
\* worker, of which one failed, and analysis_completed.
FetchedSessionSentAllEvents ==
    /\ path = "websocket"
    /\ request.pr_url = "url"
    /\ ws_pc = "exit"
    /\ events.fetch_started = 1
    /\ events.fetch_completed = 1
    /\ events.analysis_started = 1
    /\ events.agent_started = NumAgents
    /\ \A a \in AgentType : events.agent_completed[a] = 1
    /\ events.completed_data["testing"][1].status = "failed"
    /\ events.analysis_completed = 1
    /\ events.error = 0

-----------------------------------------------------------------------------
(* Properties of the counts of a report *)

\* C36: in every report total_findings is the sum of the four severity
\* counts, and every finding of its results has exactly one of the four
\* severities, so it is counted under one of them and under no other.
SeverityCountsPartition ==
    final_result # None =>
        /\ Report.total_findings =
               Report.critical_count + Report.high_count
                   + Report.medium_count + Report.low_count
        /\ \A i \in 1..Len(Results) : \A j \in 1..Len(Results[i].findings) :
               Cardinality({s \in Severity : Results[i].findings[j].severity = s}) = 1

\* C36 witness: a report of the orchestrator with findings under three
\* severities and none under the fourth.
ReportWithThreeSeverities ==
    /\ path = "coordinator"
    /\ final_result # None
    /\ Report.critical_count > 0
    /\ Report.high_count > 0
    /\ Report.medium_count > 0
    /\ Report.low_count = 0
    /\ Report.total_findings =
           Report.critical_count + Report.high_count + Report.medium_count

-----------------------------------------------------------------------------
(* Properties of the key parse_response reads, under KeySpec *)

\* The value parse_response is to read: the one under "findings" when the
\* object has that key, else the one under "issues", else nothing.
Selected ==
    IF "findings" \in DOMAIN parse_input.v THEN Some(parse_input.v.findings)
    ELSE IF "issues" \in DOMAIN parse_input.v THEN Some(parse_input.v.issues)
    ELSE None

\* C35: when the parsed object has "findings", the Findings are those of the
\* value under "findings" whatever is under "issues", also when that value is
\* an empty list, null or not a list; and when the value under the selected
\* key is not a list there are no Findings and the worker result is
\* completed.
PrimaryKeyPrecedence ==
    parsed # None =>
        /\ (Selected # None /\ Selected[1].t = "list") =>
               parsed[1].out = Returned(ParseItems(parsed[1].agent, Selected[1].v))
        /\ (Selected # None /\ Selected[1].t # "list") =>
               /\ parsed[1].out = Returned(<<>>)
               /\ parsed[1].result.status = "completed"
               /\ parsed[1].result.findings = <<>>
               /\ parsed[1].result.error = None

\* C35 witness: an object with an empty "findings" list and two records
\* under "issues" gave no Findings and a completed result.
EmptyFindingsHidIssues ==
    /\ parsed # None
    /\ DOMAIN parse_input.v = {"findings", "issues"}
    /\ parse_input.v.findings = JList(<<>>)
    /\ parse_input.v.issues.t = "list"
    /\ Len(ParseItems(parsed[1].agent, parse_input.v.issues.v)) = 2
    /\ parsed[1].out = Returned(<<>>)
    /\ parsed[1].result.status = "completed"

-----------------------------------------------------------------------------
(* Properties of the three aggregations *)

\* The fields of a report the three aggregations compute.
Summary(r) ==
    [total_findings |-> r.total_findings, critical_count |-> r.critical_count,
     high_count |-> r.high_count, medium_count |-> r.medium_count,
     low_count |-> r.low_count, total_execution_time |-> r.total_execution_time,
     status |-> r.status]

\* C34 (as claimed): a completed report, whichever of the three aggregations
\* built it, has the total, the severity counts, the total_execution_time
\* and the status that _aggregate_node and the aggregation of handle_analysis
\* compute from the same results.
AggregationsAgree ==
    (final_result # None /\ Report.status = "completed") =>
        /\ Summary(Report) = Summary(AggregateNode(Results))
        /\ Summary(Report) = Summary(WsAggregate(Results))

-----------------------------------------------------------------------------
(* Properties of a rejected session, under SessionSpec *)

\* The session is one of the four that are rejected: its input is not a
\* JSON object, it has neither diff_text nor pr_url, its fetch fails, or
\* the fetched diff is empty.
RejectedInput ==
    \/ request.raw # "object"
    \/ Missing(request.pr_url) /\ Missing(request.diff_text)
    \/ ~Missing(request.pr_url) /\ request.fetched \in {"raises", "empty"}

\* C31: a session that is rejected sends at most one error event, exactly
\* one once it has ended, never analysis_started, agent_started,
\* agent_completed or analysis_completed, and starts no worker; and in no
\* session is analysis_completed sent once an error event has been sent.
RejectedWithOneError ==
    [][/\ (path = "websocket" /\ RejectedInput) =>
             /\ events'.error <= 1
             /\ ws_pc' = "exit" => events'.error = 1
             /\ events'.analysis_started = 0
             /\ events'.agent_started = 0
             /\ events'.analysis_completed = 0
             /\ \A a \in AgentType :
                    /\ events'.agent_completed[a] = 0
                    /\ wpc'[a] = "idle"
                    /\ posts'[a] = 0
       /\ events.error > 0 => events'.analysis_completed = events.analysis_completed
      ]_vars

\* C31 witness: a session whose input was not JSON has ended with one error
\* event and nothing else sent.
InvalidJsonGaveOneError ==
    /\ path = "websocket"
    /\ request.raw = "invalid"
    /\ ws_pc = "exit"
    /\ events = Sent(NoEvents, "error")
    /\ \A a \in AgentType : wpc[a] = "idle"

-----------------------------------------------------------------------------
(* Properties of the connection manager, under RegistrySpec *)

\* C32: a session id is in active_connections exactly while its handler
\* runs: from connect on, and removed, it alone, in the step in which the
\* handler ends, however it ends; a send_event call changes
\* active_connections for no session, and for a session that is not
\* registered it delivers nothing.
RegisteredWhileHandled ==
    [][\A s \in SessionIds :
          /\ (s \in active_connections') <=> (endpoint'[s].pc = "handling")
          /\ (endpoint[s].pc = "handling" /\ endpoint'[s].pc # "handling") =>
                 /\ endpoint'[s].pc \in HandlerOutcomes
                 /\ active_connections' = active_connections \ {s}
          /\ (endpoint'[s].calls # endpoint[s].calls) =>
                 /\ active_connections' = active_connections
                 /\ (s \notin active_connections) =>
                        endpoint'[s] = [endpoint[s] EXCEPT !.calls = @ + 1]
      ]_vars

\* C32 witness: a session whose handler ended with the exception of an
\* error event's send is removed while another is registered, and the
\* events sent to it since were delivered nowhere.
RemovedAfterRaise ==
    /\ endpoint[1].pc = "raised"
    /\ 1 \notin active_connections
    /\ endpoint[1].calls = MaxSends
    /\ endpoint[1].sent = 0
    /\ endpoint[2].pc = "handling"
    /\ active_connections = {2}
    /\ endpoint[2].sent > 0

-----------------------------------------------------------------------------
(* Properties of overlapping calls, under OverlapSpec *)

\* The results the workers of a call produce for its change text, in the
\* order of the agents.
OwnResults(r) ==
    SelectSeq([i \in 1..NumAgents |->
                  AnalyzeCall(AgentNames[i], ReplyTo(runs[r].diff, AgentNames[i]), 0).value],
              LAMBDA x : x.agent \in Workers(path))

\* C33: of calls that overlap on one orchestrator or one service, each
\* holds, while it waits, only results produced for its own change text, and
\* returns a report whose results, total and counts are those of the results
\* produced for its own change text; the service stores it under the call's
\* own id.
RunsKeepOwnResults ==
    \A r \in RunIds :
        /\ \A a \in AgentType :
               runs[r].task_result[a] # None =>
                   runs[r].task_result[a][1] =
                       AnalyzeCall(a, ReplyTo(runs[r].diff, a), 0).value
        /\ runs[r].final_result # None =>
               /\ runs[r].final_result[1].agent_results = OwnResults(r)
               /\ [Summary(runs[r].final_result[1]) EXCEPT !.total_execution_time = 0] =
                      [Summary(AggregateNode(OwnResults(r))) EXCEPT
                          !.total_execution_time = 0]
               /\ path = "http" =>
                      \E i \in DOMAIN store :
                          /\ store[i].id = runs[r].analysis_id
                          /\ store[i].result = runs[r].final_result[1]
                          /\ \A j \in DOMAIN store : store[j].id = store[i].id => j = i

\* C33 witness: two calls of run on different change texts, the second
\* started while the first was waiting for its workers, have both returned,
\* one a report with findings and the other a report of failed workers.
OverlappingRunsReturned ==
    /\ path = "coordinator"
    /\ runs[1].pc = "done" /\ runs[2].pc = "done"
    /\ runs[1].diff = "diff_a" /\ runs[2].diff = "diff_b"
    /\ runs[2].overlapped
    /\ runs[1].final_result[1].total_findings > 0
    /\ runs[2].final_result[1].total_findings = 0
    /\ \A i \in 1..NumAgents :
          /\ runs[1].final_result[1].agent_results[i].status = "completed"
          /\ runs[2].final_result[1].agent_results[i].status = "failed"

====
